---- MODULE Spec2Model ----
(***************************************************************************)
(* A model of the Sass prefix resolver: the @forward chain resolver        *)
(* (ForwardResolver), the module path resolver (ModuleResolver), the       *)
(* declaration scanner (SassParser, UseResolver), the read-through file    *)
(* cache (readFile, CacheManager) and the definition provider              *)
(* (SassDefinitionProvider).                                               *)
(*                                                                         *)
(* Text is modelled as sequences of one-character strings, so that prefix  *)
(* tests, substring and concatenation are computed as the code computes    *)
(* them.  A file path is the sequence of its segments.  The content of a   *)
(* stylesheet is the sequence of its lines; a line is the record of what   *)
(* the scanner's regular expression captures on it.                        *)
(*                                                                         *)
(* JavaScript runs one call chain at a time: a chain keeps the thread      *)
(* until it awaits real I/O (fs.promises.access, fs.promises.readFile).    *)
(* The variable "running" holds the chain that owns the thread.            *)
(***************************************************************************)
EXTENDS Integers, Sequences, FiniteSets, TLC

VARIABLES
    fs,            \* the disk: path -> content, for the paths that exist
    cache,         \* CacheManager.cache: path -> cached content
    visitedFiles,  \* ForwardResolver.visitedFiles, one Set per resolver instance
    running,       \* the call chain that owns the thread, or NoTask
    task           \* per call chain: operation, position, frames, result

vars == <<fs, cache, visitedFiles, running, task>>

-----------------------------------------------------------------------------
(* Strings *)

StartsWith(s, p) ==
    /\ Len(p) <= Len(s)
    /\ SubSeq(s, 1, Len(p)) = p

\* s.substring(n)
Substring(s, n) == SubSeq(s, n + 1, Len(s))

\* s.substring(a, b)
Substring2(s, a, b) == SubSeq(s, a + 1, b)

\* line[j] with the 0-based index of the source; "" past the end
CharAt(s, j) == IF j >= 0 /\ j < Len(s) THEN s[j + 1] ELSE ""

Letters ==
    {"a", "b", "c", "d", "e", "f", "g", "h", "i", "j", "k", "l", "m", "n", "o", "p", "q",
     "r", "s", "t", "u", "v", "w", "x", "y", "z"}
Digits == {"0", "1"}

\* the class \w
WordChars == Letters \cup Digits \cup {"_"}

\* /[\w$.-]/
IsTokenOrDot(c) == c \in WordChars \cup {"$", ".", "-"}

\* /[\w$-]/
IsTokenChar(c) == c \in WordChars \cup {"$", "-"}

\* /[\w-]/
IsNamespaceChar(c) == c \in WordChars \cup {"-"}

CountOf(s, c) == Cardinality({i \in 1..Len(s) : s[i] = c})

\* token.indexOf("."), 0-based, -1 when there is none
IndexOfDot(s) ==
    IF \E i \in 1..Len(s) : s[i] = "."
    THEN (CHOOSE i \in 1..Len(s) : s[i] = "." /\ \A j \in 1..(i - 1) : s[j] # ".") - 1
    ELSE -1

-----------------------------------------------------------------------------
(* Paths (node:path on sequences of segments) *)

\* path.dirname; the root <<>> is its own parent
Dirname(p) == IF p = <<>> THEN p ELSE SubSeq(p, 1, Len(p) - 1)

\* path.basename
Basename(p) == p[Len(p)]

\* path.join(dir, name)
Join(dir, name) == Append(dir, name)

\* `${p}${ext}`: the extension is glued to the last segment
WithExt(p, ext) == [p EXCEPT ![Len(p)] = @ \o ext]

\* path.resolve(dir, modulePath): "." stays, ".." goes up, a name goes down
RECURSIVE PathResolve(_, _)
PathResolve(dir, mp) ==
    IF mp = <<>> THEN dir
    ELSE IF Head(mp) = "." THEN PathResolve(dir, Tail(mp))
    ELSE IF Head(mp) = ".." THEN PathResolve(Dirname(dir), Tail(mp))
    ELSE PathResolve(Append(dir, Head(mp)), Tail(mp))

-----------------------------------------------------------------------------
(* File content: one record per line, holding what the scanners capture.   *)
(* lc: the trimmed line starts with "//".                                  *)

\* @use "<path>" as <as>;        (as = <<>>: no "as" clause)
UseLine(path, as) == [k |-> "use", lc |-> FALSE, path |-> path, as |-> as]

\* @forward "<path>" as <as>-*;  (as = <<>>: no "as" clause)
ForwardLine(path, as) == [k |-> "forward", lc |-> FALSE, path |-> path, as |-> as]

\* @mixin <name>(...) { with the "@" of the keyword at column col and one blank
\* between the keyword and the name
MixinLine(name, col) ==
    [k |-> "mixin", lc |-> FALSE, name |-> name, col |-> col, params |-> <<>>]

\* @mixin <name>($<p1>: <d1>, $<p2>: <d2>) {, the parameters as records of name
\* and default
MixinWith(name, col, params) ==
    [k |-> "mixin", lc |-> FALSE, name |-> name, col |-> col, params |-> params]

MixinKeyword == <<"@", "m", "i", "x", "i", "n">>

\* the column of the name on a mixin line
MixinNameColumn(line) == line.col + Len(MixinKeyword) + 1

\* <name>: <value>; at column col, name with its "$"
VarLine(name, col) == [k |-> "var", lc |-> FALSE, name |-> name, col |-> col]

\* // <line>
Commented(line) == [line EXCEPT !.lc = TRUE]

NoPath == <<>>
NoName == <<>>

RECURSIVE SortedSeq(_)
SortedSeq(S) ==
    IF S = {} THEN <<>>
    ELSE LET m == CHOOSE a \in S : \A b \in S : a <= b
         IN <<m>> \o SortedSeq(S \ {m})

\* the 1-based indices of the lines of kind k that are not line comments
LinesOfKind(content, k) ==
    SortedSeq({i \in 1..Len(content) : content[i].k = k /\ ~content[i].lc})

\* ForwardResolver.parseForwardStatements: prefix = match[2] ? `${match[2]}-` : null
PrefixOf(as) == IF as # <<>> THEN as \o <<"-">> ELSE NoName

parseForwardStatements(content) ==
    LET idx == LinesOfKind(content, "forward")
    IN [n \in 1..Len(idx) |->
           [path |-> content[idx[n]].path,
            prefix |-> PrefixOf(content[idx[n]].as),
            line |-> idx[n] - 1]]

\* the characters of a path segment of the model
Chars(seg) ==
    CASE seg = "a" -> <<"a">>
      [] seg = "b" -> <<"b">>
      [] seg = "c" -> <<"c">>
      [] seg = "_b" -> <<"_", "b">>
      [] seg = "math" -> <<"m", "a", "t", "h">>
      [] OTHER -> <<"x">>

\* UseResolver.extractDefaultNamespace: the last segment of the path, without
\* "sass:" (a segment of its own in the model), the extension (module paths of
\* the model carry none) and a leading "_"
extractDefaultNamespace(path) ==
    LET lastPart == Chars(Basename(path))
    IN IF StartsWith(lastPart, <<"_">>) THEN Substring(lastPart, 1) ELSE lastPart

\* UseResolver.parseUseStatements
parseUseStatements(content) ==
    LET idx == LinesOfKind(content, "use")
    IN [n \in 1..Len(idx) |->
           [path |-> content[idx[n]].path,
            namespace |-> IF content[idx[n]].as # <<>>
                          THEN content[idx[n]].as
                          ELSE extractDefaultNamespace(content[idx[n]].path),
            line |-> idx[n] - 1]]

NoUse == [found |-> FALSE, path |-> NoPath]

\* UseResolver.findUseByNamespace: the first statement bound to the namespace
findUseByNamespace(content, namespace) ==
    LET stmts == parseUseStatements(content)
        hits == {n \in 1..Len(stmts) : stmts[n].namespace = namespace}
    IN IF hits = {} THEN NoUse
       ELSE [found |-> TRUE,
             path |-> stmts[CHOOSE n \in hits : \A o \in hits : n <= o].path]

NoDef == [found |-> FALSE, filePath |-> NoPath, line |-> 0, column |-> 0]

FirstLineNamed(content, k, name) ==
    LET hits == {i \in 1..Len(content) :
                    content[i].k = k /\ ~content[i].lc /\ content[i].name = name}
    IN IF hits = {} THEN 0 ELSE CHOOSE i \in hits : \A j \in hits : i <= j

\* a scan that reports the column of the mixin's name
findMixinDefinitionAtName(content, mixinName, filePath) ==
    LET i == FirstLineNamed(content, "mixin", mixinName)
    IN IF i = 0 THEN NoDef
       ELSE [found |-> TRUE, filePath |-> filePath, line |-> i - 1,
             column |-> MixinNameColumn(content[i])]

\* SassParser.findMixinDefinition (name, filePath, line, column):
\* column = match.index, the column where "@mixin" starts
findMixinDefinition(content, mixinName, filePath) ==
    LET i == FirstLineNamed(content, "mixin", mixinName)
    IN IF i = 0 THEN NoDef
       ELSE [found |-> TRUE, filePath |-> filePath, line |-> i - 1,
             column |-> content[i].col]

\* SassParser.findVariableDefinition
findVariableDefinition(content, variableName, filePath) ==
    LET i == FirstLineNamed(content, "var", variableName)
    IN IF i = 0 THEN NoDef
       ELSE [found |-> TRUE, filePath |-> filePath, line |-> i - 1,
             column |-> content[i].col]

\* SassParser.findAllMixinDefinitionsWithParams / findAllVariableDefinitions:
\* every definition of the kind, in line order
findAllDefinitions(content, k, filePath) ==
    LET idx == LinesOfKind(content, k)
    IN [n \in 1..Len(idx) |->
           [name |-> content[idx[n]].name, filePath |-> filePath,
            line |-> idx[n] - 1, column |-> content[idx[n]].col]]

-----------------------------------------------------------------------------
(* ModuleResolver *)

\* the files of the disk and the directories above them
Entries(disk) == UNION {{SubSeq(f, 1, n) : n \in 0..Len(f)} : f \in DOMAIN disk}

\* fileExists
Exists(disk, p) == p \in Entries(disk)

\* for (const candidate of candidates) if (await fileExists(candidate)) return
FirstExisting(disk, candidates) ==
    LET existing == SelectSeq(candidates, LAMBDA c : Exists(disk, c))
    IN IF existing = <<>> THEN NoPath ELSE Head(existing)

\* a resolver that looks into the directory before it looks for the flat file
resolveRelativePathIndexFirst(disk, modulePath, currentFilePath) ==
    LET basePath == PathResolve(Dirname(currentFilePath), modulePath)
        candidates ==
            << Join(basePath, "_index.scss"),
               Join(basePath, "_index.sass"),
               Join(basePath, "index.scss"),
               Join(basePath, "index.sass"),
               WithExt(basePath, ".scss"),
               WithExt(basePath, ".sass"),
               Join(Dirname(basePath), ("_" \o Basename(basePath)) \o ".scss"),
               Join(Dirname(basePath), ("_" \o Basename(basePath)) \o ".sass") >>
    IN FirstExisting(disk, candidates)

\* ModuleResolver.resolveRelativePath
resolveRelativePath(disk, modulePath, currentFilePath) ==
    LET currentDir == Dirname(currentFilePath)
        basePath == PathResolve(currentDir, modulePath)
        candidates ==
            << WithExt(basePath, ".scss"),
               WithExt(basePath, ".sass"),
               Join(basePath, "_index.scss"),
               Join(basePath, "_index.sass"),
               Join(basePath, "index.scss"),
               Join(basePath, "index.sass"),
               Join(Dirname(basePath), ("_" \o Basename(basePath)) \o ".scss"),
               Join(Dirname(basePath), ("_" \o Basename(basePath)) \o ".sass") >>
    IN FirstExisting(disk, candidates)

\* readFile as the resolver sees it: the cached text, else the text on disk
ReadThrough(disk, cached, p) == IF p \in DOMAIN cached THEN cached[p] ELSE disk[p]

\* package.json: { "sass": <sass>, "style": <style> }; <<>> = the field is absent
ManifestLine(sass, style) == [k |-> "json", lc |-> FALSE, sass |-> sass, style |-> style]

\* a reader that prefers the "style" field
ManifestEntryStyleFirst(content) ==
    IF Len(content) = 1 /\ content[1].k = "json"
    THEN IF content[1].style # <<>> THEN content[1].style ELSE content[1].sass
    ELSE <<>>

\* readPackageJson + `packageJson.sass || packageJson.style`; <<>> when the text
\* is not JSON or names no entry
ManifestEntry(content) ==
    IF Len(content) = 1 /\ content[1].k = "json"
    THEN IF content[1].sass # <<>> THEN content[1].sass ELSE content[1].style
    ELSE <<>>

\* ModuleResolver.resolveInNodeModules
resolveInNodeModules(disk, cached, modulePath, nodeModulesPath) ==
    LET packagePath == nodeModulesPath \o modulePath
        packageJsonPath == Join(packagePath, "package.json")
        sassEntry == IF packageJsonPath \in DOMAIN disk \/ packageJsonPath \in DOMAIN cached
                     THEN ManifestEntry(ReadThrough(disk, cached, packageJsonPath))
                     ELSE <<>>
        entryPath == PathResolve(packagePath, sassEntry)
        candidates ==
            << Join(packagePath, "index.scss"),
               Join(packagePath, "_index.scss"),
               Join(packagePath, "index.sass"),
               Join(packagePath, "_index.sass"),
               WithExt(packagePath, ".scss"),
               WithExt(packagePath, ".sass"),
               Join(Dirname(packagePath), ("_" \o Basename(packagePath)) \o ".scss"),
               Join(Dirname(packagePath), ("_" \o Basename(packagePath)) \o ".sass") >>
    IN IF Exists(disk, packageJsonPath) /\ sassEntry # <<>> /\ Exists(disk, entryPath)
       THEN entryPath
       ELSE FirstExisting(disk, candidates)

\* ModuleResolver.resolvePackagePath: the loop, from currentDir upward
RECURSIVE PackageWalk(_, _, _, _, _)
PackageWalk(disk, cached, modulePath, currentDir, workspaceRoot) ==
    LET nodeModulesPath == Join(currentDir, "node_modules")
        resolved == IF Exists(disk, nodeModulesPath)
                    THEN resolveInNodeModules(disk, cached, modulePath, nodeModulesPath)
                    ELSE NoPath
        parentDir == Dirname(currentDir)
    IN IF resolved # NoPath THEN resolved
       ELSE IF parentDir = currentDir \/ currentDir = workspaceRoot THEN NoPath
       ELSE PackageWalk(disk, cached, modulePath, parentDir, workspaceRoot)

resolvePackagePath(disk, cached, modulePath, currentFilePath, workspaceRoot) ==
    PackageWalk(disk, cached, modulePath, Dirname(currentFilePath), workspaceRoot)

\* the package.json files resolvePackagePath reads from disk on its way up:
\* readPackageJson goes through readFile, which caches what it reads
RECURSIVE ManifestsRead(_, _, _, _, _)
ManifestsRead(disk, cached, modulePath, currentDir, workspaceRoot) ==
    LET nodeModulesPath == Join(currentDir, "node_modules")
        packageJsonPath == Join(nodeModulesPath \o modulePath, "package.json")
        here == IF Exists(disk, nodeModulesPath) /\ packageJsonPath \in DOMAIN disk
                   /\ packageJsonPath \notin DOMAIN cached
                THEN {packageJsonPath} ELSE {}
        resolved == IF Exists(disk, nodeModulesPath)
                    THEN resolveInNodeModules(disk, cached, modulePath, nodeModulesPath)
                    ELSE NoPath
        parentDir == Dirname(currentDir)
    IN IF resolved # NoPath \/ parentDir = currentDir \/ currentDir = workspaceRoot
       THEN here
       ELSE here \cup ManifestsRead(disk, cached, modulePath, parentDir, workspaceRoot)

\* the cache once resolveModule has returned
CacheAfterResolve(disk, cached, modulePath, currentFilePath, workspaceRoot) ==
    IF Head(modulePath) \in {"sass:", ".", ".."} THEN cached
    ELSE LET read == ManifestsRead(disk, cached, modulePath, Dirname(currentFilePath),
                                   workspaceRoot)
         IN [q \in DOMAIN cached \cup read |->
                IF q \in DOMAIN cached THEN cached[q] ELSE disk[q]]

\* a resolver that treats every path that is not relative as a package path
resolveModuleNoBuiltin(disk, cached, modulePath, currentFilePath, workspaceRoot) ==
    IF Head(modulePath) \in {".", ".."}
    THEN resolveRelativePath(disk, modulePath, currentFilePath)
    ELSE resolvePackagePath(disk, cached, modulePath, currentFilePath, workspaceRoot)

\* ModuleResolver.resolveModule
resolveModule(disk, cached, modulePath, currentFilePath, workspaceRoot) ==
    IF Head(modulePath) = "sass:" THEN NoPath
    ELSE IF Head(modulePath) \in {".", ".."}
         THEN resolveRelativePath(disk, modulePath, currentFilePath)
         ELSE resolvePackagePath(disk, cached, modulePath, currentFilePath, workspaceRoot)

-----------------------------------------------------------------------------
(* ForwardResolver: the pieces of findForwardedMember and                  *)
(* findAllForwardedMembers that compute values                             *)

Absent == [found |-> FALSE, originalName |-> NoName, filePath |-> NoPath]

\* const isVariable = memberName.startsWith("$")
IsVariable(name) == StartsWith(name, <<"$">>)

\* const nameWithoutDollar = isVariable ? memberName.substring(1) : memberName
NameWithoutDollar(name) == IF IsVariable(name) THEN Substring(name, 1) ELSE name

\* a cycle check that refuses no file
OnStackNever(visited, filePath) == FALSE

\* a cycle check that sees only a file that is alone on the stack
OnStackShallow(visited, filePath) == filePath \in visited /\ Cardinality(visited) = 1

\* the cycle check at the head of both traversals
OnStack(visited, filePath) == filePath \in visited

\* the statement is followed for memberName: no prefix, or the name without its
\* "$" starts with the prefix
PrefixMatches(memberName, prefix) ==
    prefix = NoName \/ StartsWith(NameWithoutDollar(memberName), prefix)

\* the prefix removed as often as it leads the name, up to twice
StripPrefixTwice(memberName, prefix) ==
    IF prefix = NoName THEN memberName
    ELSE LET once == Substring(NameWithoutDollar(memberName), Len(prefix))
             baseName == IF StartsWith(once, prefix) THEN Substring(once, Len(prefix))
                         ELSE once
         IN IF IsVariable(memberName) THEN <<"$">> \o baseName ELSE baseName

\* originalName: the prefix removed behind the "$", the "$" put back
StripPrefix(memberName, prefix) ==
    IF prefix = NoName THEN memberName
    ELSE LET baseName == Substring(NameWithoutDollar(memberName), Len(prefix))
         IN IF IsVariable(memberName) THEN <<"$">> \o baseName ELSE baseName

\* a frame that passes on what the recursion returned, found or not
NestedResultOnly(nestedResult, originalName, resolvedPath) == nestedResult

\* a frame that reports its own hop whatever the recursion returned
HopAlways(nestedResult, originalName, resolvedPath) ==
    [found |-> TRUE, originalName |-> originalName, filePath |-> resolvedPath]

\* what a frame returns once the recursion into resolvedPath has returned
HopResult(nestedResult, originalName, resolvedPath) ==
    IF nestedResult.found THEN nestedResult
    ELSE [found |-> TRUE, originalName |-> originalName, filePath |-> resolvedPath]

\* a privacy test that looks at the name with its "$"
IsPrivateWithSigil(name) == StartsWith(name, <<"_">>)

\* names starting with "_" behind the "$" are private
IsPrivate(name) == StartsWith(NameWithoutDollar(name), <<"_">>)

\* the prefix put in front of the whole name, "$" included
AddPrefixInFront(name, prefix) == IF prefix = NoName THEN name ELSE prefix \o name

\* member.name = `$${prefix}${nameWithoutDollar}` or `${prefix}${member.name}`
AddPrefix(name, prefix) ==
    IF prefix = NoName THEN name
    ELSE IF IsVariable(name) THEN (<<"$">> \o prefix) \o NameWithoutDollar(name)
    ELSE prefix \o name

\* the direct members of a forwarded file as they are pushed to results:
\* private ones dropped, the statement's prefix applied
DirectMembers(members, prefix) ==
    LET keep == SelectSeq(members, LAMBDA m : ~IsPrivate(m.name))
    IN [n \in 1..Len(keep) |-> [keep[n] EXCEPT !.name = AddPrefix(@, prefix)]]

\* the nested members pushed as they came back
NestedMembersAsIs(members, prefix) == members

\* the nested members as they are pushed to results: the prefix applied
NestedMembers(members, prefix) ==
    [n \in 1..Len(members) |-> [members[n] EXCEPT !.name = AddPrefix(@, prefix)]]

\* the kind of line findAllForwardedMembers collects for a member type
KindOf(type) == IF type = "mixin" THEN "mixin" ELSE "var"

-----------------------------------------------------------------------------
(* SassDefinitionProvider.extractContext *)

RECURSIVE ScanBack(_, _, _)
\* while (start > 0 && class.test(line[start - 1])) start--
ScanBack(line, start, class) ==
    IF start > 0 /\ CharAt(line, start - 1) \in class
    THEN ScanBack(line, start - 1, class)
    ELSE start

RECURSIVE ScanForward(_, _, _)
\* while (end < line.length && class.test(line[end])) end++
ScanForward(line, end, class) ==
    IF end < Len(line) /\ CharAt(line, end) \in class
    THEN ScanForward(line, end + 1, class)
    ELSE end

TokenClass == WordChars \cup {"$", "-"}
NamespaceClass == WordChars \cup {"-"}

\* argumentName: for the context of a cursor in the arguments of an @include
\* call (extractIncludeCallContext), the name under the cursor
NoContext ==
    [found |-> FALSE, token |-> NoName, namespace |-> NoName, member |-> NoName,
     cursorTarget |-> "none", argumentName |-> NoName]

\* cursorInToken <= dotIndex ? "namespace" : "member"
CursorTarget(cursorInToken, dotIndex) ==
    IF cursorInToken <= dotIndex THEN "namespace" ELSE "member"

extractContext(line, cursorChar) ==
    LET onToken == cursorChar < Len(line) /\ IsTokenChar(CharAt(line, cursorChar))
        afterToken == cursorChar > 0 /\ IsTokenChar(CharAt(line, cursorChar - 1))
        start0 == IF onToken THEN cursorChar ELSE cursorChar - 1
        start1 == ScanBack(line, start0, TokenClass)
        start == IF start1 > 0 /\ CharAt(line, start1 - 1) = "."
                 THEN ScanBack(line, start1 - 1, NamespaceClass)
                 ELSE start1
        end == ScanForward(line, cursorChar, TokenClass)
        token == Substring2(line, start, end)
        dotIndex == IndexOfDot(token)
        namespace == Substring2(token, 0, dotIndex)
        member == Substring(token, dotIndex + 1)
    IN IF (cursorChar >= Len(line) \/ ~IsTokenOrDot(CharAt(line, cursorChar)))
          /\ ~afterToken
       THEN NoContext
       ELSE IF ~onToken /\ ~afterToken THEN NoContext
       ELSE IF dotIndex = -1 THEN NoContext
       ELSE IF namespace = NoName \/ member = NoName THEN NoContext
       ELSE [found |-> TRUE, token |-> token, namespace |-> namespace,
             member |-> member,
             cursorTarget |-> CursorTarget(cursorChar - start, dotIndex),
             argumentName |-> NoName]

-----------------------------------------------------------------------------
(* The characters of a line, for the scans that work on them *)

RECURSIVE Blanks(_)
Blanks(n) == IF n = 0 THEN <<>> ELSE <<" ">> \o Blanks(n - 1)

RECURSIVE JoinedBy(_, _)
\* parts.join(sep)
JoinedBy(parts, sep) ==
    IF parts = <<>> THEN <<>>
    ELSE IF Len(parts) = 1 THEN Head(parts)
    ELSE (Head(parts) \o sep) \o JoinedBy(Tail(parts), sep)

\* $<name>: <default>
ParamChars(param) == (<<"$">> \o param.name) \o (<<":", " ">> \o param.default)

\* the characters of a definition line; a line of another kind holds no "$",
\* "(" or ")" and is taken as empty here
LineChars(line) ==
    IF line.k = "mixin"
    THEN Blanks(line.col) \o MixinKeyword \o <<" ">> \o line.name \o <<"(">>
             \o JoinedBy([n \in 1..Len(line.params) |-> ParamChars(line.params[n])],
                         <<",", " ">>)
             \o <<")", " ", "{">>
    ELSE IF line.k = "var" THEN Blanks(line.col) \o line.name \o <<":", " ", "0", ";">>
    ELSE <<>>

-----------------------------------------------------------------------------
(* SassParser.parseMixinParameters *)

\* s.trim()
RECURSIVE TrimLeft(_)
TrimLeft(s) ==
    IF s # <<>> /\ Head(s) \in {" ", "\t", "\n"} THEN TrimLeft(Tail(s)) ELSE s

RECURSIVE TrimRight(_)
TrimRight(s) ==
    IF s # <<>> /\ s[Len(s)] \in {" ", "\t", "\n"}
    THEN TrimRight(SubSeq(s, 1, Len(s) - 1)) ELSE s

Trim(s) == TrimRight(TrimLeft(s))

NoArgs == [found |-> FALSE, text |-> <<>>]

\* SassParser.extractArgumentsString over the characters of the lines from
\* startLine on, "\n" between two lines: what stands between the first "(" and
\* the ")" that closes it; not found when it is never closed
RECURSIVE ArgsScan(_, _, _, _, _)
ArgsScan(stream, j, depth, foundStart, argsString) ==
    IF j > Len(stream) THEN NoArgs
    ELSE LET char == stream[j]
         IN IF char = "\n"
            THEN ArgsScan(stream, j + 1, depth, foundStart,
                          IF foundStart /\ depth > 0 THEN Append(argsString, "\n")
                          ELSE argsString)
            ELSE IF char = "(" /\ depth = 0
                 THEN ArgsScan(stream, j + 1, 1, TRUE, argsString)
                 ELSE IF ~(foundStart /\ (IF char = "(" THEN depth + 1 ELSE depth) > 0)
                      THEN ArgsScan(stream, j + 1, IF char = "(" THEN depth + 1 ELSE depth,
                                    foundStart, argsString)
                      ELSE IF char = ")" /\ depth = 1 THEN [found |-> TRUE, text |-> argsString]
                      ELSE ArgsScan(stream, j + 1,
                                    IF char = "(" THEN depth + 1
                                    ELSE IF char = ")" THEN depth - 1 ELSE depth,
                                    foundStart, Append(argsString, char))

extractArgumentsString(lines, startLine) ==
    ArgsScan(JoinedBy([n \in 1..(Len(lines) - startLine) |-> lines[startLine + n]],
                      <<"\n">>),
             1, 0, FALSE, <<>>)

\* SassParser.splitArguments: cut at the commas outside brackets, each token
\* trimmed, an empty last token dropped
RECURSIVE SplitScan(_, _, _, _, _)
SplitScan(argsString, j, depth, current, tokens) ==
    IF j > Len(argsString)
    THEN IF Trim(current) # <<>> THEN Append(tokens, Trim(current)) ELSE tokens
    ELSE LET char == argsString[j]
             deeper == IF char \in {"(", "{"} THEN depth + 1
                       ELSE IF char \in {")", "}"} THEN depth - 1 ELSE depth
         IN IF char = "," /\ deeper = 0
            THEN SplitScan(argsString, j + 1, deeper, <<>>, Append(tokens, Trim(current)))
            ELSE SplitScan(argsString, j + 1, deeper, Append(current, char), tokens)

splitArguments(argsString) == SplitScan(argsString, 1, 0, <<>>, <<>>)

\* the 0-based indices where /\$\s*([\w-]+)/ matches: a "$", blanks, a name
DollarNames(text) ==
    {i \in 0..(Len(text) - 1) :
        /\ CharAt(text, i) = "$"
        /\ ScanForward(text, ScanForward(text, i + 1, {" ", "\t", "\n"}), NamespaceClass)
               > ScanForward(text, i + 1, {" ", "\t", "\n"})}

\* capture 1 and the end of the match that starts at i
DollarNameAt(text, i) ==
    LET b == ScanForward(text, i + 1, {" ", "\t", "\n"})
        c == ScanForward(text, b, NamespaceClass)
    IN [name |-> Substring2(text, b, c), end |-> c]

\* \b at the 0-based position pos: a word character on one side only
WordBoundary(text, pos) ==
    (CharAt(text, pos - 1) \in WordChars) # (CharAt(text, pos) \in WordChars)

\* line.match(new RegExp(`\\$\\s*${paramName}\\b`)): the index of the leftmost
\* match, -1 when there is none
ParamIndexIn(line, paramName) ==
    LET hits == {i \in 0..(Len(line) - 1) :
                    /\ CharAt(line, i) = "$"
                    /\ \E b \in (i + 1)..ScanForward(line, i + 1, {" ", "\t", "\n"}) :
                           /\ b + Len(paramName) <= Len(line)
                           /\ Substring2(line, b, b + Len(paramName)) = paramName
                           /\ WordBoundary(line, b + Len(paramName))}
    IN IF hits = {} THEN -1 ELSE CHOOSE i \in hits : \A j \in hits : i <= j

\* SassParser.calculateParameterPosition: the first of the lines startLine ..
\* startLine + 9 that holds a match, else the line of the definition, column 0
RECURSIVE calculateParameterPosition(_, _, _, _)
calculateParameterPosition(paramName, lines, startLine, i) ==
    IF i >= startLine + 10 \/ i >= Len(lines) THEN [line |-> startLine, column |-> 0]
    ELSE IF ParamIndexIn(lines[i + 1], paramName) # -1
         THEN [line |-> i, column |-> ParamIndexIn(lines[i + 1], paramName)]
         ELSE calculateParameterPosition(paramName, lines, startLine, i + 1)

\* SassParser.parseMixinParameters: name, line and column of each parameter
\* (the default value is not carried)
parseMixinParameters(content, startLine) ==
    LET lines == [n \in 1..Len(content) |-> LineChars(content[n])]
        args == extractArgumentsString(lines, startLine)
        argTokens == IF ~args.found \/ Trim(args.text) = <<>> THEN <<>>
                     ELSE splitArguments(args.text)
        parsed == SelectSeq(argTokens, LAMBDA token : DollarNames(token) # {})
    IN [n \in 1..Len(parsed) |->
           LET first == CHOOSE i \in DollarNames(parsed[n]) :
                            \A j \in DollarNames(parsed[n]) : i <= j
               name == DollarNameAt(parsed[n], first).name
               position == calculateParameterPosition(name, lines, startLine, startLine)
           IN [name |-> name, line |-> position.line, column |-> position.column]]

-----------------------------------------------------------------------------
(* SassDefinitionProvider.extractIncludeCallContext *)

NoInclude ==
    [found |-> FALSE, namespace |-> NoName, mixinName |-> NoName, argumentName |-> NoName]

\* /@include\s+([\w-]+)\.([\w-]+)\s*\(/ tried with "@include" at the 0-based
\* index i; paren is where its "(" stands
IncludeCallAt(line, i) ==
    LET keyword == <<"@", "i", "n", "c", "l", "u", "d", "e">>
        a == i + Len(keyword)
        b == ScanForward(line, a, {" ", "\t"})
        c == ScanForward(line, b, NamespaceClass)
        d == ScanForward(line, c + 1, NamespaceClass)
        e == ScanForward(line, d, {" ", "\t"})
    IN IF /\ a <= Len(line) /\ Substring2(line, i, a) = keyword
          /\ b > a /\ c > b /\ CharAt(line, c) = "." /\ d > c + 1 /\ CharAt(line, e) = "("
       THEN [found |-> TRUE, namespace |-> Substring2(line, b, c),
             mixinName |-> Substring2(line, c + 1, d), paren |-> e]
       ELSE [found |-> FALSE, namespace |-> NoName, mixinName |-> NoName, paren |-> -1]

\* SassDefinitionProvider.findMatchingParen
RECURSIVE findMatchingParen(_, _, _)
findMatchingParen(line, i, depth) ==
    IF i >= Len(line) THEN -1
    ELSE IF CharAt(line, i) = "(" THEN findMatchingParen(line, i + 1, depth + 1)
    ELSE IF CharAt(line, i) = ")"
         THEN IF depth - 1 = 0 THEN i ELSE findMatchingParen(line, i + 1, depth - 1)
         ELSE findMatchingParen(line, i + 1, depth)

\* SassDefinitionProvider.extractArgumentNameAtCursor: the name of the first
\* "$name" of the argument text whose span, its end included, holds the cursor
extractArgumentNameAtCursor(line, cursorPos, argsStart, argsEnd) ==
    LET argsString == Substring2(line, argsStart + 1, argsEnd)
        relativePos == cursorPos - argsStart - 1
        hits == {i \in DollarNames(argsString) :
                    relativePos >= i /\ relativePos <= DollarNameAt(argsString, i).end}
    IN IF hits = {} THEN NoName
       ELSE DollarNameAt(argsString, CHOOSE i \in hits : \A j \in hits : i <= j).name

\* the body of the loop over the matches, for a match with its "(" at
\* parenStart and the matching ")" at parenEnd: the argument name under the
\* cursor, NoName when the match is passed over
IncludeArgumentIn(line, cursorChar, parenStart, parenEnd) ==
    IF parenEnd = -1 THEN NoName
    ELSE IF cursorChar <= parenStart \/ cursorChar >= parenEnd THEN NoName
    ELSE extractArgumentNameAtCursor(line, cursorChar, parenStart, parenEnd)

IncludeArgumentOf(line, cursorChar, match) ==
    IF ~match.found THEN NoName
    ELSE IncludeArgumentIn(line, cursorChar, match.paren,
                           findMatchingParen(line, match.paren, 0))

\* the argument name the match at i gives for the cursor
IncludeArgumentAt(line, cursorChar, i) ==
    IncludeArgumentOf(line, cursorChar, IncludeCallAt(line, i))

\* what the first match that is not passed over returns
IncludeContextOf(match, argumentName) ==
    [found |-> TRUE, namespace |-> match.namespace, mixinName |-> match.mixinName,
     argumentName |-> argumentName]

IncludeContextAmong(line, cursorChar, hits) ==
    IF hits = {} THEN NoInclude
    ELSE IncludeContextOf(IncludeCallAt(line, CHOOSE i \in hits : \A j \in hits : i <= j),
                          IncludeArgumentAt(line, cursorChar,
                                            CHOOSE i \in hits : \A j \in hits : i <= j))

extractIncludeCallContext(line, cursorChar) ==
    IncludeContextAmong(line, cursorChar,
        {i \in 0..(Len(line) - 1) : IncludeArgumentAt(line, cursorChar, i) # NoName})

-----------------------------------------------------------------------------
(* SassCompletionProvider.getCompletionContext: the three patterns tried on   *)
(* the text before the cursor, each computed on the characters                *)

\* the class \s
Whitespace == {" ", "\t"}

Include == <<"@", "i", "n", "c", "l", "u", "d", "e">>

NoMatch == [found |-> FALSE, namespace |-> NoName, mixinName |-> NoName]

\* /@include\s+(?:([\w-]+)\.)?([\w-]+)\s*\([^)]*$/ tried with "@include" at the
\* 0-based index i: the blanks, the first name, then ".name" if it is there,
\* blanks, "(", and no ")" up to the end
MixinArgMatchAt(text, i) ==
    LET a == i + Len(Include)
        b == ScanForward(text, a, Whitespace)
        c == ScanForward(text, b, NamespaceClass)
        d == ScanForward(text, c + 1, NamespaceClass)
        Opens(e) == /\ CharAt(text, e) = "("
                    /\ \A j \in (e + 1)..(Len(text) - 1) : CharAt(text, j) # ")"
        keyword == a <= Len(text) /\ Substring2(text, i, a) = Include
        qualified == /\ keyword /\ b > a /\ c > b
                     /\ CharAt(text, c) = "." /\ d > c + 1
                     /\ Opens(ScanForward(text, d, Whitespace))
        plain == /\ keyword /\ b > a /\ c > b
                 /\ Opens(ScanForward(text, c, Whitespace))
    IN IF qualified
       THEN [found |-> TRUE, namespace |-> Substring2(text, b, c),
             mixinName |-> Substring2(text, c + 1, d)]
       ELSE IF plain
            THEN [found |-> TRUE, namespace |-> NoName, mixinName |-> Substring2(text, b, c)]
            ELSE NoMatch

\* textBeforeCursor.match(...): the leftmost match
MixinArgMatch(text) ==
    LET hits == {i \in 0..(Len(text) - 1) : MixinArgMatchAt(text, i).found}
    IN IF hits = {} THEN NoMatch
       ELSE MixinArgMatchAt(text, CHOOSE i \in hits : \A j \in hits : i <= j)

NoMemberMatch == [found |-> FALSE, namespace |-> NoName, typedAfterDot |-> NoName]

\* /([\w-]+)\.(\$[\w-]*|[\w-]*)$/: the name characters at the end, a "$" before
\* them or none, the ".", and the name before it
NamespaceMemberMatch(text) ==
    LET k == ScanBack(text, Len(text), NamespaceClass)
        typed == IF CharAt(text, k - 1) = "$" THEN k - 1 ELSE k
        dot == typed - 1
        start == ScanBack(text, dot, NamespaceClass)
    IN IF dot >= 0 /\ CharAt(text, dot) = "." /\ start < dot
       THEN [found |-> TRUE, namespace |-> Substring2(text, start, dot),
             typedAfterDot |-> Substring(text, typed)]
       ELSE NoMemberMatch

\* /(?:^|[\s:,(])\$[\w-]*$/: the name characters at the end, the "$" before
\* them, and before it the start of the line or one of the separators
ScopeVarMatch(text) ==
    LET k == ScanBack(text, Len(text), NamespaceClass)
    IN /\ k >= 1 /\ CharAt(text, k - 1) = "$"
       /\ k = 1 \/ CharAt(text, k - 2) \in Whitespace \cup {":", ",", "("}

\* /@include\s+/.test(textBeforeCursor)
IncludeBefore(text) ==
    \E i \in 0..(Len(text) - 1) :
        /\ i + Len(Include) <= Len(text)
        /\ Substring2(text, i, i + Len(Include)) = Include
        /\ CharAt(text, i + Len(Include)) \in Whitespace

\* /[\w-]+\s*:/.test(textBeforeCursor)
PropertyBefore(text) ==
    \E j \in 0..(Len(text) - 1) :
        /\ CharAt(text, j) = ":"
        /\ LET n == ScanBack(text, j, Whitespace)
           IN n > 0 /\ CharAt(text, n - 1) \in NamespaceClass

\* a filter that looks for the property before it looks for the keyword
determineMemberFilterPropertyFirst(textBeforeCursor, typedAfterDot) ==
    IF StartsWith(typedAfterDot, <<"$">>) THEN "variable"
    ELSE IF PropertyBefore(textBeforeCursor) THEN "variable"
    ELSE IF IncludeBefore(textBeforeCursor) THEN "mixin"
    ELSE "both"

\* SassCompletionProvider.determineMemberFilter
determineMemberFilter(textBeforeCursor, typedAfterDot) ==
    IF StartsWith(typedAfterDot, <<"$">>) THEN "variable"
    ELSE IF IncludeBefore(textBeforeCursor) THEN "mixin"
    ELSE IF PropertyBefore(textBeforeCursor) THEN "variable"
    ELSE "both"

\* getCompletionContext returns null
NoCompletion ==
    [type |-> "none", namespace |-> NoName, mixinName |-> NoName,
     memberFilter |-> "none", typedLength |-> 0]

\* SassCompletionProvider.getCompletionContext
getCompletionContext(lineText, character) ==
    LET textBeforeCursor == Substring2(lineText, 0, character)
        mixinArgMatch == MixinArgMatch(textBeforeCursor)
        namespaceMemberMatch == NamespaceMemberMatch(textBeforeCursor)
    IN IF mixinArgMatch.found
       THEN [NoCompletion EXCEPT !.type = "mixinArgument",
                                 !.namespace = mixinArgMatch.namespace,
                                 !.mixinName = mixinArgMatch.mixinName]
       ELSE IF namespaceMemberMatch.found
            THEN [NoCompletion EXCEPT
                     !.type = "namespaceMember",
                     !.namespace = namespaceMemberMatch.namespace,
                     !.memberFilter =
                         determineMemberFilter(textBeforeCursor,
                                               namespaceMemberMatch.typedAfterDot),
                     !.typedLength = Len(namespaceMemberMatch.typedAfterDot)]
            ELSE IF ScopeVarMatch(textBeforeCursor)
                 THEN [NoCompletion EXCEPT !.type = "scopeVariable"]
                 ELSE NoCompletion

-----------------------------------------------------------------------------
(* The call chains *)

\* the call chains that may be in flight at once
Tasks == {"t1", "t2"}
NoTask == "none"

\* the deepest stack of traversal frames the model follows
MaxDepth == 5

\* the workspace folder and the document of the editor
WorkspaceRoot == <<"w">>
Document == <<"w", "main.scss">>

NoCall == [content |-> <<>>, memberName |-> NoName, filePath |-> NoPath]
NoInput == [line |-> <<>>, cursor |-> 0, filePath |-> NoPath, memberName |-> NoName,
            type |-> "none"]

\* new Map()
EmptyCache == [q \in {} |-> <<>>]

\* what cacheManager.get returns: the text, or undefined
NoText == [found |-> FALSE, text |-> <<>>]
Text(content) == [found |-> TRUE, text |-> content]

\* content: the text fs.promises.readFile has read for a readFile call that
\* has not run on yet.  unnotified: the paths changed on disk since their last
\* notification, as every chain could be told.  settled: the readFile call of
\* the chain began with its path not among them, and the path has not changed
\* on disk since
\* workspaceRoot, currentDir: the argument and the loop variable of
\* resolvePackagePath.  checked: the directories whose node_modules the loop has
\* looked at, in order
\* completion: what getCompletionContext returned to the chain.  moduleContent:
\* the text of the module file the completion works on.  items: the completion
\* items of the chain.  error: an exception is on its way up the chain, or has
\* left it.  failed: the await at which a readFile of the chain was rejected.
\* expanded: the number of frames the top-level traversal of the chain has
\* entered past the cycle check.
\* got: what the last cacheManager.get of the chain returned.  latest: for the
\* caller that exercises the cache, the text of the latest set of each path
\* that no notification for the path and no deactivation has followed
IdleTask ==
    [op |-> "none", pc |-> "idle", io |-> FALSE, input |-> NoInput,
     context |-> NoContext, use |-> NoPath, moduleFilePath |-> NoPath, target |-> Absent,
     call |-> NoCall, stack |-> <<>>, visited |-> {},
     ret |-> Absent, members |-> <<>>, result |-> NoDef,
     got |-> NoText, latest |-> EmptyCache, completion |-> NoCompletion,
     moduleContent |-> <<>>, items |-> <<>>, error |-> FALSE, failed |-> "none",
     expanded |-> 0, workspaceRoot |-> NoPath, currentDir |-> NoPath, checked |-> <<>>,
     content |-> <<>>, unnotified |-> {}, settled |-> FALSE]

\* a frame of findForwardedMember or findAllForwardedMembers
Frame(filePath, memberName, content) ==
    [file |-> filePath, name |-> memberName,
     stmts |-> parseForwardStatements(content), i |-> 1,
     orig |-> NoName, resolved |-> NoPath, results |-> <<>>]

Top(t) == task[t].stack[Len(task[t].stack)]
Pop(stack) == SubSeq(stack, 1, Len(stack) - 1)
SetTop(stack, f) == [stack EXCEPT ![Len(stack)] = f]

\* the chain may take its next step: it owns the thread, or the thread is free
\* and the I/O it awaits has completed
CanStep(t) ==
    \/ running = t /\ ~task[t].io
    \/ running = NoTask /\ task[t].io

\* a module path whose resolution touches the disk (fileExists); "sass:" does not
TouchesDisk(modulePath) == Head(modulePath) # "sass:"

\* readFile(p) at the moment it is called: a cache hit returns without I/O
CacheHit(p) == p \in DOMAIN cache

\* fs.promises.readFile(p) resolves: the file is there when the read is done;
\* a cache hit needs no file
ReadSucceeds(t, p) == ~task[t].io \/ p \in DOMAIN fs

\* readFile(p) at the moment it returns: the cached text, or the text just read
ReadResult(t, p) == IF task[t].io THEN fs[p] ELSE cache[p]

\* cacheManager.set(p, content) after a disk read
CacheAfterRead(t, p) ==
    IF task[t].io
    THEN [q \in DOMAIN cache \cup {p} |-> IF q = p THEN fs[p] ELSE cache[q]]
    ELSE cache

\* the chain ends with a result and gives the thread back
Finish(t, res) ==
    /\ task' = [task EXCEPT ![t].pc = "done", ![t].io = FALSE, ![t].result = res]
    /\ running' = NoTask

-----------------------------------------------------------------------------
(* CacheManager *)

\* cacheManager.get(filePath)
CacheGet(cached, filePath) ==
    IF filePath \in DOMAIN cached THEN Text(cached[filePath]) ELSE NoText

\* cacheManager.set(filePath, content)
CacheSet(cached, filePath, content) ==
    [q \in DOMAIN cached \cup {filePath} |-> IF q = filePath THEN content ELSE cached[q]]

\* a handler that drops the whole cache on a notification
CacheDeleteAll(cached, filePaths) == EmptyCache

\* the handlers of onDidChangeTextDocument and onDidDeleteFiles:
\* if (this.cache.has(path)) this.cache.delete(path), for each path notified
CacheDelete(cached, filePaths) ==
    [q \in DOMAIN cached \ filePaths |-> cached[q]]

\* cacheManager.clear()
CacheClear(cached) == EmptyCache

\* a caller of the cache has made a call: the chain records it
Called(t, op, filePath, content, got, latest) ==
    task' = [task EXCEPT ![t] = [IdleTask EXCEPT
                !.op = op, !.pc = "done",
                !.input = [NoInput EXCEPT !.filePath = filePath, !.line = content],
                !.got = got, !.latest = latest]]

Cache_Set(t, filePath, content) ==
    /\ running = NoTask
    /\ cache' = CacheSet(cache, filePath, content)
    /\ Called(t, "set", filePath, content, NoText,
              [q \in DOMAIN task[t].latest \cup {filePath} |->
                  IF q = filePath THEN content ELSE task[t].latest[q]])
    /\ UNCHANGED <<fs, visitedFiles, running>>

Cache_Get(t, filePath) ==
    /\ running = NoTask
    /\ Called(t, "get", filePath, <<>>, CacheGet(cache, filePath), task[t].latest)
    /\ UNCHANGED <<fs, cache, visitedFiles, running>>

\* vscode.workspace.onDidChangeTextDocument fires for a document
Cache_Changed(t, filePath) ==
    /\ running = NoTask
    /\ cache' = CacheDelete(cache, {filePath})
    /\ Called(t, "changed", filePath, <<>>, NoText,
              [q \in DOMAIN task[t].latest \ {filePath} |-> task[t].latest[q]])
    /\ UNCHANGED <<fs, visitedFiles, running>>

\* vscode.workspace.onDidDeleteFiles fires for the files of one event
Cache_Deleted(t, filePaths) ==
    /\ running = NoTask
    /\ cache' = CacheDelete(cache, filePaths)
    /\ Called(t, "deleted", NoPath, <<>>, NoText,
              [q \in DOMAIN task[t].latest \ filePaths |-> task[t].latest[q]])
    /\ UNCHANGED <<fs, visitedFiles, running>>

\* deactivate(): cacheManager.clear()
Cache_Deactivate(t) ==
    /\ running = NoTask
    /\ cache' = CacheClear(cache)
    /\ Called(t, "deactivate", NoPath, <<>>, NoText, EmptyCache)
    /\ UNCHANGED <<fs, visitedFiles, running>>

-----------------------------------------------------------------------------
(* ForwardResolver.findForwardedMember, one action per stretch of code      *)
(* between two awaits                                                       *)

\* entry: the cycle check, visitedFiles.add, parseForwardStatements
FFM_Enter(t) ==
    /\ CanStep(t)
    /\ task[t].pc = "ffm_enter"
    /\ Len(task[t].stack) < MaxDepth
    /\ LET c == task[t].call
       IN IF OnStack(visitedFiles, c.filePath)
          THEN /\ task' = [task EXCEPT ![t].pc = "ffm_return", ![t].ret = Absent]
               /\ UNCHANGED visitedFiles
          ELSE /\ visitedFiles' = visitedFiles \cup {c.filePath}
               /\ task' = [task EXCEPT
                      ![t].pc = "ffm_statement",
                      ![t].expanded = @ + 1,
                      ![t].stack = Append(@, Frame(c.filePath, c.memberName, c.content))]
    /\ running' = t
    /\ UNCHANGED <<fs, cache>>

\* the head of the for loop: past the last statement return undefined through
\* the finally; skip a statement whose prefix does not match; else strip the
\* prefix and await resolveModule
FFM_Statement(t) ==
    /\ CanStep(t)
    /\ task[t].pc = "ffm_statement"
    /\ LET f == Top(t)
       IN IF f.i > Len(f.stmts)
          THEN /\ visitedFiles' = visitedFiles \ {f.file}
               /\ task' = [task EXCEPT ![t].pc = "ffm_return", ![t].ret = Absent,
                                       ![t].stack = Pop(@)]
               /\ running' = t
          ELSE LET stmt == f.stmts[f.i]
               IN IF ~PrefixMatches(f.name, stmt.prefix)
                  THEN /\ task' = [task EXCEPT ![t].stack = SetTop(@, [f EXCEPT !.i = @ + 1])]
                       /\ running' = t
                       /\ UNCHANGED visitedFiles
                  ELSE /\ task' = [task EXCEPT
                              ![t].pc = "ffm_resolving",
                              ![t].io = TouchesDisk(stmt.path),
                              ![t].stack = SetTop(@,
                                  [f EXCEPT !.orig = StripPrefix(f.name, stmt.prefix)])]
                       /\ running' = IF TouchesDisk(stmt.path) THEN NoTask ELSE t
                       /\ UNCHANGED visitedFiles
    /\ UNCHANGED <<fs, cache>>

\* a loop that gives up at the first statement whose path does not resolve
FFM_ResolvedOrStop(t) ==
    /\ CanStep(t)
    /\ task[t].pc = "ffm_resolving"
    /\ LET f == Top(t)
       IN \E resolvedPath \in
              {resolveModule(fs, cache, f.stmts[f.i].path, f.file, WorkspaceRoot)} :
          IF resolvedPath = NoPath
          THEN /\ task' = [task EXCEPT ![t].pc = "ffm_return", ![t].io = FALSE,
                              ![t].ret = Absent, ![t].stack = Pop(@)]
               /\ visitedFiles' = visitedFiles \ {f.file}
               /\ running' = t
          ELSE /\ task' = [task EXCEPT ![t].pc = "ffm_reading",
                              ![t].io = ~CacheHit(resolvedPath),
                              ![t].stack = SetTop(@, [f EXCEPT !.resolved = resolvedPath])]
               /\ running' = IF CacheHit(resolvedPath) THEN t ELSE NoTask
               /\ UNCHANGED visitedFiles
    /\ cache' = CacheAfterResolve(fs, cache, Top(t).stmts[Top(t).i].path, Top(t).file,
                                  WorkspaceRoot)
    /\ UNCHANGED fs

\* resolveModule has returned: unresolvable, go on with the next statement;
\* else await readFile(resolvedPath)
FFM_Resolved(t) ==
    /\ CanStep(t)
    /\ task[t].pc = "ffm_resolving"
    /\ LET f == Top(t)
       IN \E resolvedPath \in
              {resolveModule(fs, cache, f.stmts[f.i].path, f.file, WorkspaceRoot)} :
          IF resolvedPath = NoPath
          THEN /\ task' = [task EXCEPT ![t].pc = "ffm_statement", ![t].io = FALSE,
                              ![t].stack = SetTop(@, [f EXCEPT !.i = @ + 1])]
               /\ running' = t
          ELSE /\ task' = [task EXCEPT ![t].pc = "ffm_reading",
                              ![t].io = ~CacheHit(resolvedPath),
                              ![t].stack = SetTop(@, [f EXCEPT !.resolved = resolvedPath])]
               /\ running' = IF CacheHit(resolvedPath) THEN t ELSE NoTask
    /\ cache' = CacheAfterResolve(fs, cache, Top(t).stmts[Top(t).i].path, Top(t).file,
                                  WorkspaceRoot)
    /\ UNCHANGED <<fs, visitedFiles>>

\* readFile has returned: the recursive call
FFM_Read(t) ==
    /\ CanStep(t)
    /\ task[t].pc = "ffm_reading"
    /\ LET f == Top(t)
       IN /\ ReadSucceeds(t, f.resolved)
          /\ cache' = CacheAfterRead(t, f.resolved)
          /\ task' = [task EXCEPT
                 ![t].pc = "ffm_enter", ![t].io = FALSE,
                 ![t].call = [content |-> ReadResult(t, f.resolved),
                              memberName |-> f.orig, filePath |-> f.resolved]]
    /\ running' = t
    /\ UNCHANGED <<fs, visitedFiles>>

\* a frame that goes on with its next statement when the recursion found
\* nothing
FFM_ReturnOrContinue(t) ==
    /\ CanStep(t)
    /\ task[t].pc = "ffm_return"
    /\ task[t].stack # <<>>
    /\ LET f == Top(t)
       IN IF task[t].ret.found
          THEN /\ visitedFiles' = visitedFiles \ {f.file}
               /\ task' = [task EXCEPT ![t].stack = Pop(@)]
          ELSE /\ UNCHANGED visitedFiles
               /\ task' = [task EXCEPT ![t].pc = "ffm_statement",
                                       ![t].stack = SetTop(@, [f EXCEPT !.i = @ + 1])]
    /\ running' = t
    /\ UNCHANGED <<fs, cache>>

\* the recursive call has returned to a frame: the nested result if there is
\* one, else this hop; the finally removes the frame's file
FFM_Return(t) ==
    /\ CanStep(t)
    /\ task[t].pc = "ffm_return"
    /\ task[t].stack # <<>>
    /\ LET f == Top(t)
       IN /\ visitedFiles' = visitedFiles \ {f.file}
          /\ task' = [task EXCEPT
                 ![t].ret = HopResult(task[t].ret, f.orig, f.resolved),
                 ![t].stack = Pop(@)]
    /\ running' = t
    /\ UNCHANGED <<fs, cache>>

\* a top-level call of findForwardedMember on the text of a file
FFM_Call(t, filePath, memberName) ==
    /\ running = NoTask
    /\ task[t].op = "none"
    /\ filePath \in DOMAIN fs
    /\ task' = [task EXCEPT
           ![t].op = "ffm", ![t].pc = "ffm_enter",
           ![t].input = [NoInput EXCEPT !.filePath = filePath, !.memberName = memberName],
           ![t].call = [content |-> fs[filePath], memberName |-> memberName,
                        filePath |-> filePath]]
    /\ running' = t
    /\ UNCHANGED <<fs, cache, visitedFiles>>

\* the top-level call has returned to its caller
FFM_Done(t) ==
    /\ CanStep(t)
    /\ task[t].op = "ffm"
    /\ task[t].pc = "ffm_return"
    /\ task[t].stack = <<>>
    /\ task' = [task EXCEPT ![t].pc = "done"]
    /\ running' = NoTask
    /\ UNCHANGED <<fs, cache, visitedFiles>>

-----------------------------------------------------------------------------
(* ForwardResolver.findAllForwardedMembers; the visitedFiles argument is    *)
(* the Set its top-level call creates, task[t].visited                      *)

\* a cycle check against one visited set for all calls in flight
All_EnterShared(t) ==
    /\ CanStep(t)
    /\ task[t].pc = "all_enter"
    /\ Len(task[t].stack) < MaxDepth
    /\ LET c == task[t].call
       IN IF OnStack(UNION {task[o].visited : o \in Tasks}, c.filePath)
          THEN task' = [task EXCEPT ![t].pc = "all_return", ![t].members = <<>>]
          ELSE task' = [task EXCEPT
                   ![t].pc = "all_statement",
                   ![t].expanded = @ + 1,
                   ![t].visited = @ \cup {c.filePath},
                   ![t].stack = Append(@, Frame(c.filePath, NoName, c.content))]
    /\ running' = t
    /\ UNCHANGED <<fs, cache, visitedFiles>>

\* entry: the cycle check, visitedFiles.add, parseForwardStatements
All_Enter(t) ==
    /\ CanStep(t)
    /\ task[t].pc = "all_enter"
    /\ Len(task[t].stack) < MaxDepth
    /\ LET c == task[t].call
       IN IF OnStack(task[t].visited, c.filePath)
          THEN task' = [task EXCEPT ![t].pc = "all_return", ![t].members = <<>>]
          ELSE task' = [task EXCEPT
                   ![t].pc = "all_statement",
                   ![t].expanded = @ + 1,
                   ![t].visited = @ \cup {c.filePath},
                   ![t].stack = Append(@, Frame(c.filePath, NoName, c.content))]
    /\ running' = t
    /\ UNCHANGED <<fs, cache, visitedFiles>>

\* a loop whose frame stays in the visited set when it returns
All_StatementKept(t) ==
    /\ CanStep(t)
    /\ task[t].pc = "all_statement"
    /\ LET f == Top(t)
       IN IF f.i > Len(f.stmts)
          THEN /\ task' = [task EXCEPT ![t].pc = "all_return", ![t].members = f.results,
                                       ![t].stack = Pop(@)]
               /\ running' = t
          ELSE /\ task' = [task EXCEPT ![t].pc = "all_resolving",
                                       ![t].io = TouchesDisk(f.stmts[f.i].path)]
               /\ running' = IF TouchesDisk(f.stmts[f.i].path) THEN NoTask ELSE t
    /\ UNCHANGED <<fs, cache, visitedFiles>>

\* the head of the for loop: past the last statement return results through
\* the finally; else await resolveModule
All_Statement(t) ==
    /\ CanStep(t)
    /\ task[t].pc = "all_statement"
    /\ LET f == Top(t)
       IN IF f.i > Len(f.stmts)
          THEN /\ task' = [task EXCEPT ![t].pc = "all_return", ![t].members = f.results,
                                       ![t].visited = @ \ {f.file},
                                       ![t].stack = Pop(@)]
               /\ running' = t
          ELSE /\ task' = [task EXCEPT ![t].pc = "all_resolving",
                                       ![t].io = TouchesDisk(f.stmts[f.i].path)]
               /\ running' = IF TouchesDisk(f.stmts[f.i].path) THEN NoTask ELSE t
    /\ UNCHANGED <<fs, cache, visitedFiles>>

\* resolveModule has returned: unresolvable, go on with the next statement;
\* else await readFile(resolvedPath)
All_Resolved(t) ==
    /\ CanStep(t)
    /\ task[t].pc = "all_resolving"
    /\ LET f == Top(t)
       IN \E resolvedPath \in
              {resolveModule(fs, cache, f.stmts[f.i].path, f.file, WorkspaceRoot)} :
          IF resolvedPath = NoPath
          THEN /\ task' = [task EXCEPT ![t].pc = "all_statement", ![t].io = FALSE,
                              ![t].stack = SetTop(@, [f EXCEPT !.i = @ + 1])]
               /\ running' = t
          ELSE /\ task' = [task EXCEPT ![t].pc = "all_reading",
                              ![t].io = ~CacheHit(resolvedPath),
                              ![t].stack = SetTop(@, [f EXCEPT !.resolved = resolvedPath])]
               /\ running' = IF CacheHit(resolvedPath) THEN t ELSE NoTask
    /\ cache' = CacheAfterResolve(fs, cache, Top(t).stmts[Top(t).i].path, Top(t).file,
                                  WorkspaceRoot)
    /\ UNCHANGED <<fs, visitedFiles>>

\* readFile has returned: the direct members are pushed, then the recursive call
All_Read(t) ==
    /\ CanStep(t)
    /\ task[t].pc = "all_reading"
    /\ LET f == Top(t)
           forwardedContent == ReadResult(t, f.resolved)
           members == findAllDefinitions(forwardedContent, KindOf(task[t].input.type),
                                         f.resolved)
       IN /\ ReadSucceeds(t, f.resolved)
          /\ cache' = CacheAfterRead(t, f.resolved)
          /\ task' = [task EXCEPT
                 ![t].pc = "all_enter", ![t].io = FALSE,
                 ![t].stack = SetTop(@, [f EXCEPT !.results =
                                  @ \o DirectMembers(members, f.stmts[f.i].prefix)]),
                 ![t].call = [content |-> forwardedContent, memberName |-> NoName,
                              filePath |-> f.resolved]]
    /\ running' = t
    /\ UNCHANGED <<fs, visitedFiles>>

\* the nested members put in front of what the frame has collected
All_ReturnNestedFirst(t) ==
    /\ CanStep(t)
    /\ task[t].pc = "all_return"
    /\ task[t].stack # <<>>
    /\ LET f == Top(t)
       IN task' = [task EXCEPT
              ![t].pc = "all_statement",
              ![t].members = <<>>,
              ![t].stack = SetTop(@, [f EXCEPT
                  !.i = @ + 1,
                  !.results = NestedMembers(task[t].members, f.stmts[f.i].prefix) \o @])]
    /\ running' = t
    /\ UNCHANGED <<fs, cache, visitedFiles>>

\* the recursive call has returned to a frame: the nested members are pushed
\* and the loop goes on
All_Return(t) ==
    /\ CanStep(t)
    /\ task[t].pc = "all_return"
    /\ task[t].stack # <<>>
    /\ LET f == Top(t)
       IN task' = [task EXCEPT
              ![t].pc = "all_statement",
              ![t].members = <<>>,
              ![t].stack = SetTop(@, [f EXCEPT
                  !.i = @ + 1,
                  !.results = @ \o NestedMembers(task[t].members, f.stmts[f.i].prefix)])]
    /\ running' = t
    /\ UNCHANGED <<fs, cache, visitedFiles>>

\* a top-level call of findAllForwardedMembers on the text of a file, with the
\* default visitedFiles = new Set()
All_Call(t, filePath, type) ==
    /\ running = NoTask
    /\ task[t].op = "none"
    /\ filePath \in DOMAIN fs
    /\ task' = [task EXCEPT
           ![t].op = "all", ![t].pc = "all_enter", ![t].visited = {},
           ![t].input = [NoInput EXCEPT !.filePath = filePath, !.type = type],
           ![t].call = [content |-> fs[filePath], memberName |-> NoName,
                        filePath |-> filePath]]
    /\ running' = t
    /\ UNCHANGED <<fs, cache, visitedFiles>>

\* the top-level call has returned to its caller
All_Done(t) ==
    /\ CanStep(t)
    /\ task[t].op = "all"
    /\ task[t].pc = "all_return"
    /\ task[t].stack = <<>>
    /\ task' = [task EXCEPT ![t].pc = "done"]
    /\ running' = NoTask
    /\ UNCHANGED <<fs, cache, visitedFiles>>

-----------------------------------------------------------------------------
(* SassDefinitionProvider.provideDefinition, resolveDefinition and            *)
(* resolveArgumentDefinition.  The two resolvers take the same steps up to    *)
(* the read of the target file; the chain of an argument lookup carries the   *)
(* include call as its context, with the argument name                        *)

\* resolveArgumentDefinition, steps 4 to 6: the mixin definition, its
\* parameters, the first parameter named argumentName
ArgumentDefinition(targetContent, targetMixinName, targetFilePath, argumentName) ==
    LET mixinDef == findMixinDefinition(targetContent, targetMixinName, targetFilePath)
        parameters == parseMixinParameters(targetContent, mixinDef.line)
        hits == {n \in 1..Len(parameters) : parameters[n].name = argumentName}
    IN IF ~mixinDef.found THEN NoDef
       ELSE IF parameters = <<>> \/ hits = {} THEN NoDef
       ELSE LET targetParam == parameters[CHOOSE n \in hits : \A o \in hits : n <= o]
            IN [found |-> TRUE, filePath |-> targetFilePath,
                line |-> targetParam.line, column |-> targetParam.column]

\* the token under the cursor taken first, the include call only where there
\* is no token
DefinitionContextTokenFirst(includeContext, line, cursorChar) ==
    IF extractContext(line, cursorChar).found
    THEN extractContext(line, cursorChar)
    ELSE IF includeContext.found
         THEN [found |-> TRUE, token |-> NoName, namespace |-> includeContext.namespace,
               member |-> includeContext.mixinName, cursorTarget |-> "member",
               argumentName |-> includeContext.argumentName]
         ELSE extractContext(line, cursorChar)

\* the context provideDefinition works with: the include call when the cursor
\* is in its arguments, else the token under the cursor
DefinitionContextWith(includeContext, line, cursorChar) ==
    IF includeContext.found
    THEN [found |-> TRUE, token |-> NoName, namespace |-> includeContext.namespace,
          member |-> includeContext.mixinName, cursorTarget |-> "member",
          argumentName |-> includeContext.argumentName]
    ELSE extractContext(line, cursorChar)

DefinitionContext(line, cursorChar) ==
    DefinitionContextWith(extractIncludeCallContext(line, cursorChar), line, cursorChar)

\* provideDefinition up to the first await: extractIncludeCallContext, else
\* extractContext, then readFile of the document
Def_Start(t, line, cursorChar) ==
    /\ running = NoTask
    /\ task[t].op = "none"
    /\ \E context \in {DefinitionContext(line, cursorChar)} :
       LET started == [task[t] EXCEPT !.op = "def", !.context = context,
                                      !.input = [NoInput EXCEPT !.line = line,
                                                                !.cursor = cursorChar,
                                                                !.filePath = Document]]
       IN IF ~context.found
          THEN /\ task' = [task EXCEPT ![t] = [started EXCEPT !.pc = "done"]]
               /\ running' = NoTask
          ELSE /\ task' = [task EXCEPT ![t] = [started EXCEPT !.pc = "def_current",
                                                              !.io = ~CacheHit(Document)]]
               /\ running' = IF CacheHit(Document) THEN t ELSE NoTask
    /\ UNCHANGED <<fs, cache, visitedFiles>>

\* the document has been read: findUseByNamespace, then await resolveModule
Def_CurrentRead(t) ==
    /\ CanStep(t)
    /\ task[t].pc = "def_current"
    /\ ReadSucceeds(t, Document)
    /\ LET useStatement == findUseByNamespace(ReadResult(t, Document),
                                              task[t].context.namespace)
       IN IF ~useStatement.found
          THEN Finish(t, NoDef)
          ELSE /\ task' = [task EXCEPT ![t].pc = "def_resolving",
                                       ![t].use = useStatement.path,
                                       ![t].io = TouchesDisk(useStatement.path)]
               /\ running' = IF TouchesDisk(useStatement.path) THEN NoTask ELSE t
    /\ cache' = CacheAfterRead(t, Document)
    /\ UNCHANGED <<fs, visitedFiles>>

\* resolveModule has returned: absent if the module is unresolvable; the top of
\* the module file if the cursor is on the namespace; else await
\* readFile(moduleFilePath)
Def_ModuleResolved(t) ==
    /\ CanStep(t)
    /\ task[t].pc = "def_resolving"
    /\ \E moduleFilePath \in
           {resolveModule(fs, cache, task[t].use, Document, WorkspaceRoot)} :
          IF moduleFilePath = NoPath
          THEN Finish(t, NoDef)
          ELSE IF task[t].context.cursorTarget = "namespace"
               THEN Finish(t, [found |-> TRUE, filePath |-> moduleFilePath,
                               line |-> 0, column |-> 0])
               ELSE /\ task' = [task EXCEPT ![t].pc = "def_module",
                                            ![t].moduleFilePath = moduleFilePath,
                                            ![t].io = ~CacheHit(moduleFilePath)]
                    /\ running' = IF CacheHit(moduleFilePath) THEN t ELSE NoTask
    /\ cache' = CacheAfterResolve(fs, cache, task[t].use, Document, WorkspaceRoot)
    /\ UNCHANGED <<fs, visitedFiles>>

\* the module file has been read: forwardResolver.clearVisitedFiles(), then the
\* call of findForwardedMember
Def_ModuleRead(t) ==
    /\ CanStep(t)
    /\ task[t].pc = "def_module"
    /\ ReadSucceeds(t, task[t].moduleFilePath)
    /\ cache' = CacheAfterRead(t, task[t].moduleFilePath)
    /\ visitedFiles' = {}
    /\ task' = [task EXCEPT
           ![t].pc = "ffm_enter", ![t].io = FALSE,
           ![t].call = [content |-> ReadResult(t, task[t].moduleFilePath),
                        memberName |-> task[t].context.member,
                        filePath |-> task[t].moduleFilePath]]
    /\ running' = t
    /\ UNCHANGED fs

\* a lookup that gives up when findForwardedMember returns nothing
Def_ForwardedOrAbsent(t) ==
    /\ CanStep(t)
    /\ task[t].op = "def"
    /\ task[t].pc = "ffm_return"
    /\ task[t].stack = <<>>
    /\ IF task[t].ret.found
       THEN /\ task' = [task EXCEPT ![t].pc = "def_target", ![t].target = task[t].ret,
                                    ![t].io = ~CacheHit(task[t].ret.filePath)]
            /\ running' = IF CacheHit(task[t].ret.filePath) THEN t ELSE NoTask
       ELSE Finish(t, NoDef)
    /\ UNCHANGED <<fs, cache, visitedFiles>>

\* findForwardedMember has returned to resolveDefinition: the target is the
\* forwarded file and name, else the module file and the member; then await
\* readFile(targetFilePath)
Def_Forwarded(t) ==
    /\ CanStep(t)
    /\ task[t].op = "def"
    /\ task[t].pc = "ffm_return"
    /\ task[t].stack = <<>>
    /\ LET forwardedResult == task[t].ret
           target == IF forwardedResult.found THEN forwardedResult
                     ELSE [found |-> FALSE, originalName |-> task[t].context.member,
                           filePath |-> task[t].moduleFilePath]
       IN /\ task' = [task EXCEPT ![t].pc = "def_target", ![t].target = target,
                                  ![t].io = ~CacheHit(target.filePath)]
          /\ running' = IF CacheHit(target.filePath) THEN t ELSE NoTask
    /\ UNCHANGED <<fs, cache, visitedFiles>>

\* the target file has been read: findVariableDefinition or findMixinDefinition,
\* or the parameter of the mixin for an argument lookup
Def_TargetRead(t) ==
    /\ CanStep(t)
    /\ task[t].pc = "def_target"
    /\ ReadSucceeds(t, task[t].target.filePath)
    /\ LET targetFilePath == task[t].target.filePath
           targetMemberName == task[t].target.originalName
           targetContent == ReadResult(t, targetFilePath)
       IN /\ Finish(t, IF task[t].context.argumentName # NoName
                       THEN ArgumentDefinition(targetContent, targetMemberName,
                                               targetFilePath,
                                               task[t].context.argumentName)
                       ELSE IF IsVariable(task[t].context.member)
                       THEN findVariableDefinition(targetContent, targetMemberName,
                                                   targetFilePath)
                       ELSE findMixinDefinition(targetContent, targetMemberName,
                                                targetFilePath))
          /\ cache' = CacheAfterRead(t, targetFilePath)
    /\ UNCHANGED <<fs, visitedFiles>>

-----------------------------------------------------------------------------
(* A rejected read: readFile logs and rethrows, the finally of each frame   *)
(* of the traversal runs, and the catch of the provider ends the request    *)

\* the path the readFile the chain awaits was called with
PendingRead(t) ==
    IF task[t].pc = "def_current" THEN Document
    ELSE IF task[t].pc \in {"def_module", "comp_module"} THEN task[t].moduleFilePath
    ELSE IF task[t].pc = "def_target" THEN task[t].target.filePath
    ELSE Top(t).resolved

\* fs.promises.readFile rejects: readFile logs the error and throws it again
Read_Failed(t) ==
    /\ CanStep(t)
    /\ task[t].pc \in {"def_current", "def_module", "def_target", "comp_module",
                       "ffm_reading", "all_reading"}
    /\ ~ReadSucceeds(t, PendingRead(t))
    /\ task' = [task EXCEPT ![t].failed = task[t].pc, ![t].pc = "throwing",
                            ![t].io = FALSE, ![t].error = TRUE]
    /\ running' = t
    /\ UNCHANGED <<fs, cache, visitedFiles>>

\* a frame without a finally: the exception leaves it and the file stays in
\* the guard set
FFM_UnwindLeaking(t) ==
    /\ CanStep(t)
    /\ task[t].op \in {"ffm", "def"}
    /\ task[t].pc = "throwing"
    /\ task[t].stack # <<>>
    /\ task' = [task EXCEPT ![t].stack = Pop(@)]
    /\ running' = t
    /\ UNCHANGED <<fs, cache, visitedFiles>>

\* the exception leaves a frame of findForwardedMember through its finally
FFM_Unwind(t) ==
    /\ CanStep(t)
    /\ task[t].op \in {"ffm", "def"}
    /\ task[t].pc = "throwing"
    /\ task[t].stack # <<>>
    /\ visitedFiles' = visitedFiles \ {Top(t).file}
    /\ task' = [task EXCEPT ![t].stack = Pop(@)]
    /\ running' = t
    /\ UNCHANGED <<fs, cache>>

\* the exception leaves a frame of findAllForwardedMembers through its finally
All_Unwind(t) ==
    /\ CanStep(t)
    /\ task[t].op \in {"all", "comp"}
    /\ task[t].pc = "throwing"
    /\ task[t].stack # <<>>
    /\ task' = [task EXCEPT ![t].visited = @ \ {Top(t).file}, ![t].stack = Pop(@)]
    /\ running' = t
    /\ UNCHANGED <<fs, cache, visitedFiles>>

\* the exception leaves the top-level findForwardedMember: its caller gets the
\* rejection
FFM_Thrown(t) ==
    /\ CanStep(t)
    /\ task[t].op = "ffm"
    /\ task[t].pc = "throwing"
    /\ task[t].stack = <<>>
    /\ task' = [task EXCEPT ![t].pc = "done"]
    /\ running' = NoTask
    /\ UNCHANGED <<fs, cache, visitedFiles>>

\* the exception leaves the top-level findAllForwardedMembers
All_Thrown(t) ==
    /\ CanStep(t)
    /\ task[t].op = "all"
    /\ task[t].pc = "throwing"
    /\ task[t].stack = <<>>
    /\ task' = [task EXCEPT ![t].pc = "done"]
    /\ running' = NoTask
    /\ UNCHANGED <<fs, cache, visitedFiles>>

\* a provideDefinition without a catch: the exception reaches the caller
Def_Uncaught(t) ==
    /\ CanStep(t)
    /\ task[t].op = "def"
    /\ task[t].pc = "throwing"
    /\ task[t].stack = <<>>
    /\ task' = [task EXCEPT ![t].pc = "done"]
    /\ running' = NoTask
    /\ UNCHANGED <<fs, cache, visitedFiles>>

\* the catch of provideDefinition: the error is logged, undefined is returned
Def_Caught(t) ==
    /\ CanStep(t)
    /\ task[t].op = "def"
    /\ task[t].pc = "throwing"
    /\ task[t].stack = <<>>
    /\ task' = [task EXCEPT ![t].pc = "done", ![t].error = FALSE, ![t].result = NoDef]
    /\ running' = NoTask
    /\ UNCHANGED <<fs, cache, visitedFiles>>

\* a file of the workspace is removed by another program; no notification
\* reaches the extension
File_Removed(p) ==
    /\ p \in DOMAIN fs
    /\ fs' = [q \in DOMAIN fs \ {p} |-> fs[q]]
    /\ UNCHANGED <<cache, visitedFiles, running, task>>

-----------------------------------------------------------------------------
(* SassCompletionProvider.provideCompletionItems for a cursor after           *)
(* "alias." (provideNamespaceMemberCompletion) and for a cursor with no       *)
(* completion context                                                         *)

\* the members that become items: not the private ones, each name once
Listed(members) ==
    SelectSeq([n \in 1..Len(members) |->
                  [name |-> members[n].name,
                   keep |-> /\ ~IsPrivate(members[n].name)
                            /\ \A k \in 1..(n - 1) : members[k].name # members[n].name]],
              LAMBDA m : m.keep)

\* new vscode.CompletionItem("$" + nameWithoutDollar, Variable) for each variable
VariableItems(allVars) ==
    [n \in 1..Len(Listed(allVars)) |->
        [label |-> <<"$">> \o NameWithoutDollar(Listed(allVars)[n].name),
         kind |-> "Variable"]]

\* new vscode.CompletionItem(m.name, Function) for each mixin
MixinItems(allMixins) ==
    [n \in 1..Len(Listed(allMixins)) |->
        [label |-> Listed(allMixins)[n].name, kind |-> "Function"]]

\* the request ends with its items and gives the thread back
Answer(t, items) ==
    /\ task' = [task EXCEPT ![t].pc = "done", ![t].io = FALSE, ![t].items = items]
    /\ running' = NoTask

\* a top-level call of findAllForwardedMembers(moduleContent, moduleFilePath,
\* workspaceRoot, type) by the completion, after the items so far
Enumerate(t, moduleContent, type, items) ==
    /\ task' = [task EXCEPT
           ![t].pc = "all_enter", ![t].io = FALSE, ![t].visited = {},
           ![t].expanded = 0,
           ![t].input = [@ EXCEPT !.type = type],
           ![t].moduleContent = moduleContent, ![t].items = items,
           ![t].call = [content |-> moduleContent, memberName |-> NoName,
                        filePath |-> task[t].moduleFilePath]]
    /\ running' = t

\* provideCompletionItems up to the first await: getCompletionContext, then
\* findUseByNamespace on the text of the document, then await resolveModule
Comp_Start(t, content, lineText, character) ==
    /\ running = NoTask
    /\ task[t].op = "none"
    /\ LET completionContext == getCompletionContext(lineText, character)
           useStatement == findUseByNamespace(content, completionContext.namespace)
           started == [task[t] EXCEPT !.op = "comp", !.completion = completionContext,
                                      !.input = [NoInput EXCEPT !.line = lineText,
                                                                !.cursor = character,
                                                                !.filePath = Document]]
       IN /\ completionContext.type \in {"none", "namespaceMember"}
          /\ IF \/ completionContext.type = "none"
                \/ ~useStatement.found
                \/ ~TouchesDisk(useStatement.path)
             THEN /\ task' = [task EXCEPT ![t] = [started EXCEPT !.pc = "done"]]
                  /\ running' = NoTask
             ELSE /\ task' = [task EXCEPT ![t] = [started EXCEPT
                                  !.pc = "comp_resolving", !.io = TRUE,
                                  !.use = useStatement.path]]
                  /\ running' = NoTask
    /\ UNCHANGED <<fs, cache, visitedFiles>>

\* resolveModule has returned: no items if the module is unresolvable, else
\* await readFile(moduleFilePath)
Comp_ModuleResolved(t) ==
    /\ CanStep(t)
    /\ task[t].pc = "comp_resolving"
    /\ \E moduleFilePath \in
           {resolveModule(fs, cache, task[t].use, Document, WorkspaceRoot)} :
          IF moduleFilePath = NoPath
          THEN Answer(t, <<>>)
          ELSE /\ task' = [task EXCEPT ![t].pc = "comp_module",
                                       ![t].moduleFilePath = moduleFilePath,
                                       ![t].io = ~CacheHit(moduleFilePath)]
               /\ running' = IF CacheHit(moduleFilePath) THEN t ELSE NoTask
    /\ cache' = CacheAfterResolve(fs, cache, task[t].use, Document, WorkspaceRoot)
    /\ UNCHANGED <<fs, visitedFiles>>

\* the module file has been read: the enumeration of the variables if the
\* filter asks for them, else that of the mixins
Comp_ModuleRead(t) ==
    /\ CanStep(t)
    /\ task[t].pc = "comp_module"
    /\ ReadSucceeds(t, task[t].moduleFilePath)
    /\ cache' = CacheAfterRead(t, task[t].moduleFilePath)
    /\ Enumerate(t, ReadResult(t, task[t].moduleFilePath),
                 IF task[t].completion.memberFilter \in {"variable", "both"}
                 THEN "variable" ELSE "mixin",
                 <<>>)
    /\ UNCHANGED <<fs, visitedFiles>>

\* findAllForwardedMembers has returned to the completion: the direct members
\* and the forwarded ones become items; after the variables the mixins are
\* enumerated if the filter asks for them
Comp_Forwarded(t) ==
    /\ CanStep(t)
    /\ task[t].op = "comp"
    /\ task[t].pc = "all_return"
    /\ task[t].stack = <<>>
    /\ LET moduleContent == task[t].moduleContent
           moduleFilePath == task[t].moduleFilePath
           direct == findAllDefinitions(moduleContent, KindOf(task[t].input.type),
                                        moduleFilePath)
           all == direct \o task[t].members
       IN IF task[t].input.type = "variable"
          THEN IF task[t].completion.memberFilter = "both"
               THEN Enumerate(t, moduleContent, "mixin",
                              task[t].items \o VariableItems(all))
               ELSE Answer(t, task[t].items \o VariableItems(all))
          ELSE Answer(t, task[t].items \o MixinItems(all))
    /\ UNCHANGED <<fs, cache, visitedFiles>>

\* the catch of provideCompletionItems: the error is logged, [] is returned
Comp_Caught(t) ==
    /\ CanStep(t)
    /\ task[t].op = "comp"
    /\ task[t].pc = "throwing"
    /\ task[t].stack = <<>>
    /\ task' = [task EXCEPT ![t].pc = "done", ![t].error = FALSE, ![t].items = <<>>]
    /\ running' = NoTask
    /\ UNCHANGED <<fs, cache, visitedFiles>>

-----------------------------------------------------------------------------
(* The stylesheets of the model *)

FileA == <<"w", "a.scss">>
FileB == <<"w", "b.scss">>
FileC == <<"w", "c.scss">>
FileD == <<"w", "d.scss">>

\* "./a", "./b", "./c", and "./z", which no file backs
ToA == <<".", "a">>
ToB == <<".", "b">>
ToC == <<".", "c">>
ToD == <<".", "d">>
ToZ == <<".", "z">>

Reset == <<"r", "e", "s", "e", "t">>
Internal == <<"_", "i", "n", "t", "e", "r", "n", "a", "l">>
Primary == <<"$", "p", "r", "i", "m", "a", "r", "y">>
Hidden == <<"$", "_", "h", "i", "d", "d", "e", "n">>
Own == <<"$", "o", "w", "n">>
Go == <<"g", "o">>
P == <<"p">>
Q == <<"q">>
Pad == <<"p", "a", "d">>
ArgA == <<"a">>
ArgAB == <<"a", "-", "b">>

\* @mixin pad($a-b: 1, $a: 0) {
PadMixin ==
    MixinWith(Pad, 0, << [name |-> ArgAB, default |-> <<"1">>],
                         [name |-> ArgA, default |-> <<"0">>] >>)

\* the definitions of each file, after its @forward lines: public and private
\* ones, mixins and variables, one of them commented out
DefinitionsOf(f) ==
    IF f = FileA THEN << VarLine(Own, 0), MixinLine(Go, 2), PadMixin >>
    ELSE IF f = FileB
         THEN << MixinLine(Reset, 0), VarLine(Hidden, 0), Commented(VarLine(Primary, 0)),
                 VarLine(Own, 2) >>
    ELSE IF f = FileD
         THEN << MixinLine(Reset, 2), VarLine(Primary, 2), VarLine(Hidden, 0) >>
         ELSE << VarLine(Primary, 0), MixinLine(Internal, 0), MixinLine(Reset, 4) >>

\* the "as" clauses met in each file: a.scss renames as p-*, b.scss as q-*
AsClausesOf(f) == IF f = FileB THEN {<<>>, Q} ELSE {<<>>, P}

\* @forward declarations of a file: to a file, as such or renamed; to nothing
ForwardDecls(f) ==
    {ForwardLine(mp, as) : mp \in {ToA, ToB, ToC}, as \in AsClausesOf(f)}
        \cup {ForwardLine(ToZ, <<>>)}

UpToOne(S) == {<<>>} \cup {<<d>> : d \in S}
UpToTwo(S) == UpToOne(S) \cup {<<d, e>> : d \in S, e \in S}

\* module graphs of three files: up to two declarations in a.scss, up to one in
\* b.scss and in c.scss
ForwardGraphs ==
    {[f \in {FileA, FileB, FileC} |->
         (IF f = FileA THEN ca ELSE IF f = FileB THEN cb ELSE cc) \o DefinitionsOf(f)] :
     ca \in UpToTwo(ForwardDecls(FileA)), cb \in UpToOne(ForwardDecls(FileB)),
     cc \in UpToOne(ForwardDecls(FileC))}

\* member names asked for
MemberNames ==
    { Reset, P \o <<"-">> \o Reset, (P \o <<"-">>) \o (P \o <<"-">> \o Reset),
      (P \o <<"-">>) \o (Q \o <<"-">> \o Reset),
      <<"$">> \o (P \o <<"-">> \o Tail(Primary)) }

MemberTypes == {"mixin", "variable"}

InitTasks == [t \in Tasks |-> IdleTask]

\* a module graph on disk, nothing cached, no call in flight
InitResolver ==
    /\ fs \in ForwardGraphs
    /\ cache = EmptyCache
    /\ visitedFiles = {}
    /\ running = NoTask
    /\ task = InitTasks

\* one top-level call of findForwardedMember or of findAllForwardedMembers,
\* from a.scss
NextResolver ==
    \/ \E name \in MemberNames : FFM_Call("t1", FileA, name)
    \/ FFM_Enter("t1")
    \/ FFM_Statement("t1")
    \/ FFM_Resolved("t1")
    \/ FFM_Read("t1")
    \/ FFM_Return("t1")
    \/ FFM_Done("t1")
    \/ \E type \in MemberTypes : All_Call("t1", FileA, type)
    \/ All_Enter("t1")
    \/ All_Statement("t1")
    \/ All_Resolved("t1")
    \/ All_Read("t1")
    \/ All_Return("t1")
    \/ All_Done("t1")

SpecResolver == InitResolver /\ [][NextResolver]_vars

\* the event loop runs a continuation once its I/O has completed, and the
\* caller makes its call
FairResolver == SpecResolver /\ WF_vars(NextResolver)

-----------------------------------------------------------------------------
(* The editor: a document that uses a.scss as m and b.scss as n *)

M == <<"m">>
N == <<"n">>
Z == <<"z">>
S == <<"s">>
K == <<"k">>

\* "sass:math", the prefix a token of its own
SassMath == <<"sass:", "math">>

\* @use "./a" as m; @use "./b" as n; @use "./z" as z; @use "sass:math" as s;
DocumentText ==
    << UseLine(ToA, M), UseLine(ToB, N), UseLine(ToZ, Z), UseLine(SassMath, S) >>

\* a stylesheet under node_modules at the place a package named like the
\* built-in module would have
ShadowOfSassMath == <<"w", "node_modules", "sass:", "math", "index.scss">>

\* the re-exports of the stylesheets behind the document
EditorGraphs ==
    {[f \in {Document, FileA, FileB, FileC, ShadowOfSassMath} |->
         IF f = Document THEN DocumentText
         ELSE IF f = ShadowOfSassMath THEN << MixinLine(Go, 0) >>
         ELSE (IF f = FileA THEN ca ELSE IF f = FileB THEN cb ELSE cc)
                  \o DefinitionsOf(f)] :
     ca \in UpToOne({ForwardLine(ToB, <<>>), ForwardLine(ToB, P), ForwardLine(ToC, <<>>)}),
     cb \in UpToOne({ForwardLine(ToC, <<>>), ForwardLine(ToA, <<>>)}),
     cc \in UpToOne({ForwardLine(ToA, <<>>)})}

\* @include <ns>.<mixin>(<args>);
IncludeLine(ns, mixin, args) ==
    Include \o <<" ">> \o ns \o <<".">> \o mixin \o <<"(">> \o args \o <<")", ";">>

\* @include m.pad($a: 2); @include m.pad($a-b: 2); @include m.go($a: 2);
\* @include m.pad($c: 2);
IncludeLines ==
    { IncludeLine(M, Pad, <<"$", "a", ":", " ", "2">>),
      IncludeLine(M, Pad, <<"$", "a", "-", "b", ":", " ", "2">>),
      IncludeLine(M, Go, <<" ", "$", "a", ":", " ", "2">>),
      IncludeLine(M, Pad, <<"$", "c", ":", " ", "2">>) }

\* the lines under the cursor: m.reset, n.reset, m.p-reset, n.$primary, m.go,
\* k.reset (no @use binds k), z.reset (no file backs "./z"), s.go
CursorLines ==
    { (M \o <<".">>) \o Reset, (N \o <<".">>) \o Reset,
      (M \o <<".">>) \o (P \o <<"-">> \o Reset), (N \o <<".">>) \o Primary,
      (M \o <<".">>) \o Go, (K \o <<".">>) \o Reset, (Z \o <<".">>) \o Reset,
      (S \o <<".">>) \o Go } \cup IncludeLines

\* on the alias, on the dot, on the member; in the arguments of the include
\* lines
CursorChars == {0, 1, 3, 17}

InitEditor ==
    /\ fs \in EditorGraphs
    /\ cache = EmptyCache
    /\ visitedFiles = {}
    /\ running = NoTask
    /\ task = InitTasks

\* the editor asks for definitions; a request may come while another is awaiting
NextEditor ==
    \E t \in Tasks :
        \/ \E line \in CursorLines, cursorChar \in CursorChars :
               Def_Start(t, line, cursorChar)
        \/ Def_CurrentRead(t)
        \/ Def_ModuleResolved(t)
        \/ Def_ModuleRead(t)
        \/ FFM_Enter(t)
        \/ FFM_Statement(t)
        \/ FFM_Resolved(t)
        \/ FFM_Read(t)
        \/ FFM_Return(t)
        \/ Def_Forwarded(t)
        \/ Def_TargetRead(t)

SpecEditor == InitEditor /\ [][NextEditor]_vars

-----------------------------------------------------------------------------
(* The editor while files disappear: one request, for a definition or for    *)
(* completions, and a program that removes stylesheets under it               *)

\* "m.", "n.", "@include m.", "m.$", "k." (no @use binds k), "s." (built-in
\* module), "z." (no file backs "./z") and "m" (no completion context)
CompletionLines ==
    { M \o <<".">>, N \o <<".">>, (Include \o <<" ">>) \o (M \o <<".">>),
      M \o <<".", "$">>, K \o <<".">>, S \o <<".">>, Z \o <<".">>, M }

\* the files another program may remove
Removable == {Document, FileA, FileB, FileC}

NextFaults ==
    \/ \E p \in Removable : File_Removed(p)
    \/ \E line \in CursorLines, cursorChar \in CursorChars :
           Def_Start("t1", line, cursorChar)
    \/ \E lineText \in CompletionLines :
           Comp_Start("t1", DocumentText, lineText, Len(lineText))
    \/ Def_CurrentRead("t1")
    \/ Def_ModuleResolved("t1")
    \/ Def_ModuleRead("t1")
    \/ FFM_Enter("t1")
    \/ FFM_Statement("t1")
    \/ FFM_Resolved("t1")
    \/ FFM_Read("t1")
    \/ FFM_Return("t1")
    \/ FFM_Unwind("t1")
    \/ Def_Forwarded("t1")
    \/ Def_TargetRead("t1")
    \/ Def_Caught("t1")
    \/ Comp_ModuleResolved("t1")
    \/ Comp_ModuleRead("t1")
    \/ All_Enter("t1")
    \/ All_Statement("t1")
    \/ All_Resolved("t1")
    \/ All_Read("t1")
    \/ All_Return("t1")
    \/ All_Unwind("t1")
    \/ Comp_Forwarded("t1")
    \/ Comp_Caught("t1")
    \/ Read_Failed("t1")

SpecFaults == InitEditor /\ [][NextFaults]_vars

-----------------------------------------------------------------------------
(* Wide module graphs: a.scss re-exports b.scss and c.scss, which re-export  *)
(* d.scss or point back; one top-level traversal from a.scss while another   *)
(* program may remove c.scss and d.scss                                       *)

WideGraphs ==
    {[f \in {FileA, FileB, FileC, FileD} |->
         (IF f = FileA THEN ca ELSE IF f = FileB THEN cb ELSE IF f = FileC THEN cc ELSE cd)
             \o DefinitionsOf(f)] :
     ca \in UpToTwo({ForwardLine(ToB, <<>>), ForwardLine(ToB, P),
                     ForwardLine(ToC, <<>>), ForwardLine(ToC, P)}),
     cb \in UpToOne({ForwardLine(ToD, <<>>), ForwardLine(ToD, Q), ForwardLine(ToA, <<>>)}),
     cc \in UpToOne({ForwardLine(ToD, <<>>), ForwardLine(ToC, <<>>)}),
     cd \in UpToOne({ForwardLine(ToA, <<>>)})}

InitWide ==
    /\ fs \in WideGraphs
    /\ cache = EmptyCache
    /\ visitedFiles = {}
    /\ running = NoTask
    /\ task = InitTasks

NextWide ==
    \/ \E p \in {FileC, FileD} : File_Removed(p)
    \/ \E name \in MemberNames : FFM_Call("t1", FileA, name)
    \/ FFM_Enter("t1")
    \/ FFM_Statement("t1")
    \/ FFM_Resolved("t1")
    \/ FFM_Read("t1")
    \/ FFM_Return("t1")
    \/ FFM_Unwind("t1")
    \/ FFM_Thrown("t1")
    \/ FFM_Done("t1")
    \/ \E type \in MemberTypes : All_Call("t1", FileA, type)
    \/ All_Enter("t1")
    \/ All_Statement("t1")
    \/ All_Resolved("t1")
    \/ All_Read("t1")
    \/ All_Return("t1")
    \/ All_Unwind("t1")
    \/ All_Thrown("t1")
    \/ All_Done("t1")
    \/ Read_Failed("t1")

SpecWide == InitWide /\ [][NextWide]_vars

\* the event loop runs a continuation once its I/O has completed; the removal
\* of a file is up to the other program
FairWide == SpecWide /\ WF_vars(NextWide)

-----------------------------------------------------------------------------
(* Two enumerations in flight at once: the second top-level call of          *)
(* findAllForwardedMembers is made while the first is suspended              *)

OverlapGraphs ==
    {[f \in {FileA, FileB, FileC, FileD} |->
         (IF f = FileA THEN ca ELSE IF f = FileB THEN cb ELSE IF f = FileC THEN cc ELSE cd)
             \o DefinitionsOf(f)] :
     ca \in {<<ForwardLine(ToB, <<>>), ForwardLine(ToC, <<>>)>>,
             <<ForwardLine(ToB, P), ForwardLine(ToC, <<>>)>>},
     cb \in {<<ForwardLine(ToD, <<>>)>>, <<ForwardLine(ToD, Q)>>, <<ForwardLine(ToA, <<>>)>>},
     cc \in {<<ForwardLine(ToD, <<>>)>>, <<ForwardLine(ToC, <<>>)>>},
     cd \in UpToOne({ForwardLine(ToA, <<>>)})}

InitOverlap ==
    /\ fs \in OverlapGraphs
    /\ cache = EmptyCache
    /\ visitedFiles = {}
    /\ running = NoTask
    /\ task = InitTasks

NextOverlap ==
    \/ \E type \in MemberTypes : All_Call("t1", FileA, type)
    \/ \E type \in MemberTypes, f \in {FileA, FileB} :
           /\ task["t1"].op = "all"
           /\ task["t1"].pc # "done"
           /\ All_Call("t2", f, type)
    \/ \E t \in Tasks :
           \/ All_Enter(t)
           \/ All_Statement(t)
           \/ All_Resolved(t)
           \/ All_Read(t)
           \/ All_Return(t)
           \/ All_Done(t)

SpecOverlap == InitOverlap /\ [][NextOverlap]_vars

-----------------------------------------------------------------------------
(* What the claims speak of *)

\* the @forward statements of a file on disk, and the file one resolves to
ForwardsOf(f) == parseForwardStatements(fs[f])
TargetOf(f, stmt) == resolveModule(fs, cache, stmt.path, f, WorkspaceRoot)

\* the call of task t, of the given operation, has returned
Returned(t, op) == task[t].op = op /\ task[t].pc = "done"

\* f re-exports exactly g, renamed as given (<<>>: not renamed)
OnlyForwards(f, g, prefix) ==
    /\ Len(ForwardsOf(f)) = 1
    /\ TargetOf(f, ForwardsOf(f)[1]) = g
    /\ ForwardsOf(f)[1].prefix = prefix

\* a statement of f that findForwardedMember follows for the name: it matches
\* and resolves
Follows(f, stmt, name) ==
    /\ stmt.prefix = NoName \/ StartsWith(NameWithoutDollar(name), stmt.prefix)
    /\ TargetOf(f, stmt) # NoPath

\* a.scss re-exports b.scss and b.scss re-exports a.scss
CycleAB ==
    /\ \E n \in 1..Len(ForwardsOf(FileA)) : TargetOf(FileA, ForwardsOf(FileA)[n]) = FileB
    /\ \E n \in 1..Len(ForwardsOf(FileB)) : TargetOf(FileB, ForwardsOf(FileB)[n]) = FileA

\* the cycle alone: each file re-exports the other, not renamed, and nothing else
PlainCycleAB == OnlyForwards(FileA, FileB, NoName) /\ OnlyForwards(FileB, FileA, NoName)

-----------------------------------------------------------------------------
(* C1 *)

\* C1: on every module graph, cycles included, a top-level call of
\* findForwardedMember or of findAllForwardedMembers returns
C1_Terminates == <>(task["t1"].pc = "done")

\* a traversal of a graph holding the cycle a.scss <-> b.scss has returned
C1_CycleTraversed == task["t1"].pc = "done" /\ CycleAB

-----------------------------------------------------------------------------
(* C2 *)

-----------------------------------------------------------------------------
(* C4 *)

\* a.scss re-exports b.scss as p-*, b.scss defines mixin reset and re-exports
\* nothing that is followed for reset or p-reset
PrefixedReset ==
    /\ OnlyForwards(FileA, FileB, P \o <<"-">>)
    /\ findMixinDefinition(fs[FileB], Reset, FileB).found
    /\ \A n \in 1..Len(ForwardsOf(FileB)) :
           /\ ~Follows(FileB, ForwardsOf(FileB)[n], Reset)
           /\ ~Follows(FileB, ForwardsOf(FileB)[n], P \o <<"-">> \o Reset)

-----------------------------------------------------------------------------
(* C5 *)

\* the last file of the chain of plain re-exports that starts at f: each file
\* re-exports exactly the next, not renamed, the last one nothing; NoPath when
\* f does not start such a chain
RECURSIVE ChainEnd(_, _)
ChainEnd(f, seen) ==
    IF f \in seen THEN NoPath
    ELSE IF ForwardsOf(f) = <<>> THEN f
    ELSE IF Len(ForwardsOf(f)) = 1 /\ ForwardsOf(f)[1].prefix = NoName
                                   /\ TargetOf(f, ForwardsOf(f)[1]) # NoPath
         THEN ChainEnd(TargetOf(f, ForwardsOf(f)[1]), seen \cup {f})
         ELSE NoPath

\* a.scss starts a chain of one hop or more
PlainChain == ChainEnd(FileA, {}) \notin {NoPath, FileA}

\* C5: through a chain of re-exports without renaming, findForwardedMember
\* returns the path of the last file of the chain and the name it was asked for
C5_ChainEnd ==
    (Returned("t1", "ffm") /\ PlainChain) =>
        task["t1"].ret = [found |-> TRUE, originalName |-> task["t1"].input.memberName,
                          filePath |-> ChainEnd(FileA, {})]

\* a chain of two hops has been followed to c.scss
C5_TwoHops ==
    /\ Returned("t1", "ffm") /\ PlainChain
    /\ ChainEnd(FileA, {}) = FileC
    /\ OnlyForwards(FileA, FileB, NoName)
    /\ task["t1"].ret.filePath = FileC

-----------------------------------------------------------------------------
(* C9 *)

\* the indices of the statements of f that are followed for the name
FollowedIn(f, name) ==
    {n \in 1..Len(ForwardsOf(f)) : Follows(f, ForwardsOf(f)[n], name)}

\* the result the first followed statement fixes: what the recursion into its
\* file returns if it finds something, else the hop itself; absent when no
\* statement is followed or the file is being searched already
RECURSIVE FirstFollowedResult(_, _, _)
FirstFollowedResult(f, name, searching) ==
    IF f \in searching \/ FollowedIn(f, name) = {} THEN Absent
    ELSE LET k == CHOOSE n \in FollowedIn(f, name) : \A o \in FollowedIn(f, name) : n <= o
             stmt == ForwardsOf(f)[k]
             originalName == StripPrefix(name, stmt.prefix)
             nested == FirstFollowedResult(TargetOf(f, stmt), originalName,
                                           searching \cup {f})
         IN IF nested.found THEN nested
            ELSE [found |-> TRUE, originalName |-> originalName,
                  filePath |-> TargetOf(f, stmt)]

\* C9: in every file searched, no statement behind the first one that matches
\* and resolves is consulted, and the result of the call is the one that
\* statement fixes, the nested result if there is one, else its own hop
C9_FirstMatchWins ==
    /\ task["t1"].op = "ffm" =>
           \A d \in 1..Len(task["t1"].stack) :
               LET fr == task["t1"].stack[d]
               IN \A n \in FollowedIn(fr.file, fr.name) : fr.i <= n
    /\ Returned("t1", "ffm") =>
           task["t1"].ret = FirstFollowedResult(FileA, task["t1"].input.memberName, {})

\* a call has returned from a file with two statements that both match and
\* resolve, to different files, the recursion into the first having found nothing
C9_SecondNeverTried ==
    /\ Returned("t1", "ffm")
    /\ Len(ForwardsOf(FileA)) = 2
    /\ FollowedIn(FileA, task["t1"].input.memberName) = {1, 2}
    /\ TargetOf(FileA, ForwardsOf(FileA)[1]) = FileB
    /\ TargetOf(FileA, ForwardsOf(FileA)[2]) = FileC
    /\ ForwardsOf(FileB) = <<>>
    /\ task["t1"].ret.filePath = FileB
-----------------------------------------------------------------------------
(* C6, C7, C8 *)

\* the name an entry of findAllForwardedMembers has in the file that defines it
DefinedName(e) == fs[e.filePath][e.line + 1].name

\* a name behind a prefix: the "$", if any, stays in front
Renamed(name, prefix) ==
    IF Head(name) = "$" THEN (<<"$">> \o prefix) \o Tail(name) ELSE prefix \o name

\* a.scss re-exports only b.scss, b.scss only c.scss, c.scss nothing
NestedChain ==
    /\ Len(ForwardsOf(FileA)) = 1 /\ TargetOf(FileA, ForwardsOf(FileA)[1]) = FileB
    /\ Len(ForwardsOf(FileB)) = 1 /\ TargetOf(FileB, ForwardsOf(FileB)[1]) = FileC
    /\ ForwardsOf(FileC) = <<>>

PQPrimary == <<"$">> \o (P \o <<"-">>) \o (Q \o <<"-">>) \o Tail(Primary)

\* C6: through "a.scss re-exports b.scss as p-*" and "b.scss re-exports c.scss
\* as q-*", findAllForwardedMembers returns $primary of c.scss as $p-q-primary,
\* once; in general an entry carries the prefixes of the hops on its way, outer
\* first, behind its "$"
C6_NestedPrefixes ==
    (Returned("t1", "all") /\ NestedChain) =>
        LET pa == ForwardsOf(FileA)[1].prefix
            pb == ForwardsOf(FileB)[1].prefix
            members == task["t1"].members
        IN /\ \A n \in 1..Len(members) :
                  /\ members[n].filePath \in {FileB, FileC}
                  /\ members[n].filePath = FileB =>
                         members[n].name = Renamed(DefinedName(members[n]), pa)
                  /\ members[n].filePath = FileC =>
                         members[n].name = Renamed(DefinedName(members[n]), pa \o pb)
           /\ (task["t1"].input.type = "variable" /\ pa = P \o <<"-">> /\ pb = Q \o <<"-">>) =>
                  Cardinality({n \in 1..Len(members) : members[n].name = PQPrimary}) = 1

\* $primary of c.scss has come back through both renaming re-exports
C6_TwicePrefixed ==
    /\ Returned("t1", "all") /\ NestedChain
    /\ \E n \in 1..Len(task["t1"].members) :
           /\ task["t1"].members[n].name = PQPrimary
           /\ task["t1"].members[n].filePath = FileC

\* the entries findAllForwardedMembers holds: in its frames and returned
EntriesHeld ==
    {task["t1"].members[n] : n \in 1..Len(task["t1"].members)}
        \cup UNION {{task["t1"].stack[d].results[n] :
                         n \in 1..Len(task["t1"].stack[d].results)} :
                    d \in 1..Len(task["t1"].stack)}

\* C7: no entry of findAllForwardedMembers is a definition whose own name
\* starts with "_" behind its "$", whatever prefix it has been given
C7_NoPrivateMember ==
    task["t1"].op = "all" =>
        \A e \in EntriesHeld :
            LET own == DefinedName(e)
            IN Head(IF Head(own) = "$" THEN Tail(own) ELSE own) # "_"

\* the variables of b.scss, $_hidden among them, have been collected
C7_PrivatePassedOver ==
    /\ Returned("t1", "all")
    /\ task["t1"].input.type = "variable"
    /\ findVariableDefinition(fs[FileB], Hidden, FileB).found
    /\ \E n \in 1..Len(task["t1"].members) : task["t1"].members[n].filePath = FileB

\* the "$" of a variable name once and in front, none in a mixin name
SigilKept(name, variable) ==
    IF variable THEN Head(name) = "$" /\ CountOf(name, "$") = 1
    ELSE CountOf(name, "$") = 0

\* C8: every name the traversals hand on keeps its "$": the names stripped by
\* findForwardedMember are variables' exactly when the name asked for is, and
\* the names renamed by findAllForwardedMembers have one "$", in front, when
\* variables are listed and none when mixins are
C8_SigilKept ==
    /\ task["t1"].op = "ffm" =>
           LET variable == Head(task["t1"].input.memberName) = "$"
           IN /\ \A d \in 1..Len(task["t1"].stack) :
                     /\ SigilKept(task["t1"].stack[d].name, variable)
                     /\ task["t1"].stack[d].orig # NoName =>
                            SigilKept(task["t1"].stack[d].orig, variable)
              /\ task["t1"].ret.found => SigilKept(task["t1"].ret.originalName, variable)
    /\ task["t1"].op = "all" =>
           \A e \in EntriesHeld : SigilKept(e.name, task["t1"].input.type = "variable")

\* a variable has been renamed on its way back
C8_VariableRenamed ==
    /\ Returned("t1", "all")
    /\ task["t1"].input.type = "variable"
    /\ \E n \in 1..Len(task["t1"].members) :
           task["t1"].members[n].name # DefinedName(task["t1"].members[n])
-----------------------------------------------------------------------------
(* C3 *)

\* what provideDefinition returns for a line and a cursor when no other
\* request is in flight: the steps of resolveDefinition in their order, the
\* re-exports followed as findForwardedMember follows them on its own
DefinitionAlone(line, cursorChar) ==
    LET context == DefinitionContext(line, cursorChar)
        useStatement == findUseByNamespace(fs[Document], context.namespace)
        moduleFilePath == resolveModule(fs, cache, useStatement.path, Document,
                                        WorkspaceRoot)
        forwardedResult == FirstFollowedResult(moduleFilePath, context.member, {})
        targetFilePath == IF forwardedResult.found THEN forwardedResult.filePath
                          ELSE moduleFilePath
        targetMemberName == IF forwardedResult.found THEN forwardedResult.originalName
                            ELSE context.member
    IN IF ~context.found \/ ~useStatement.found THEN NoDef
       ELSE IF moduleFilePath = NoPath THEN NoDef
       ELSE IF context.cursorTarget = "namespace"
            THEN [found |-> TRUE, filePath |-> moduleFilePath, line |-> 0, column |-> 0]
            ELSE IF context.argumentName # NoName
                 THEN ArgumentDefinition(fs[targetFilePath], targetMemberName,
                                         targetFilePath, context.argumentName)
            ELSE IF IsVariable(context.member)
                 THEN findVariableDefinition(fs[targetFilePath], targetMemberName,
                                             targetFilePath)
                 ELSE findMixinDefinition(fs[targetFilePath], targetMemberName,
                                          targetFilePath)

\* a request that no other request overlapped returns DefinitionAlone
AloneAgrees ==
    \A t \in Tasks :
        (Returned(t, "def") /\ \A o \in Tasks \ {t} : task[o].op = "none") =>
            task[t].result = DefinitionAlone(task[t].input.line, task[t].input.cursor)

\* C3 as stated: two overlapping provideDefinition requests do not share
\* cycle-guard state, each returns what it returns when run alone
C3_SameAsAlone ==
    \A t \in Tasks :
        Returned(t, "def") =>
            task[t].result = DefinitionAlone(task[t].input.line, task[t].input.cursor)

-----------------------------------------------------------------------------
(* C10 *)

\* C10 as stated: with the cursor on the alias of alias.member and the alias
\* bound to a module that resolves, provideDefinition returns line 0, column 0
\* of the module file
C10_AliasJump ==
    \A t \in Tasks :
        LET line == task[t].input.line
            cursorChar == task[t].input.cursor
            useStatement == findUseByNamespace(fs[Document],
                                               Substring2(line, 0, IndexOfDot(line)))
            moduleFilePath == resolveModule(fs, cache, useStatement.path, Document,
                                            WorkspaceRoot)
        IN (/\ Returned(t, "def")
            /\ IndexOfDot(line) > 0 /\ cursorChar < IndexOfDot(line)
            /\ useStatement.found /\ moduleFilePath # NoPath)
           => task[t].result = [found |-> TRUE, filePath |-> moduleFilePath,
                                line |-> 0, column |-> 0]

-----------------------------------------------------------------------------
(* C11 *)

\* the request of task t has returned for the line m.go with the cursor on go,
\* a.scss defining mixin go and re-exporting nothing
DirectGo(t) ==
    /\ Returned(t, "def")
    /\ task[t].input.line = (M \o <<".">>) \o Go
    /\ task[t].context.found /\ task[t].context.member = Go
    /\ ForwardsOf(FileA) = <<>>
    /\ FirstLineNamed(fs[FileA], "mixin", Go) # 0

\* C11 as stated: through "@use ./a as m", m.go resolves to a.scss, the line of
\* the @mixin keyword and the column of the mixin's name
C11_NameColumn ==
    \A t \in Tasks :
        DirectGo(t) =>
            LET i == FirstLineNamed(fs[FileA], "mixin", Go)
            IN task[t].result = [found |-> TRUE, filePath |-> FileA, line |-> i - 1,
                                 column |-> MixinNameColumn(fs[FileA][i])]

\* C11: through "@use ./a as m", m.go resolves to a.scss, the line of the
\* @mixin keyword and the column where that keyword starts
C11_KeywordColumn ==
    \A t \in Tasks :
        DirectGo(t) =>
            LET i == FirstLineNamed(fs[FileA], "mixin", Go)
            IN task[t].result = [found |-> TRUE, filePath |-> FileA, line |-> i - 1,
                                 column |-> fs[FileA][i].col]

\* m.go has been looked up in an a.scss that re-exports nothing
C11_GoFound == \E t \in Tasks : DirectGo(t) /\ task[t].result.filePath = FileA

-----------------------------------------------------------------------------
(* C12 *)

\* the steps of a member lookup that came back with nothing, read off the
\* request: its line, the disk, and what the chain recorded on its way
UseAbsent(t) ==
    /\ task[t].context.found /\ task[t].context.argumentName = NoName
    /\ ~findUseByNamespace(fs[Document], task[t].context.namespace).found

ModuleAbsent(t) ==
    /\ task[t].context.found /\ task[t].context.argumentName = NoName
    /\ findUseByNamespace(fs[Document], task[t].context.namespace).found
    /\ resolveModule(fs, cache,
                     findUseByNamespace(fs[Document], task[t].context.namespace).path,
                     Document, WorkspaceRoot) = NoPath

\* findForwardedMember was called and returned undefined to resolveDefinition
ChainAbsent(t) ==
    /\ task[t].context.argumentName = NoName
    /\ task[t].moduleFilePath # NoPath /\ ~task[t].ret.found

\* the definition scan of file f for the name, of the kind the member asked
\* for has
ScanOf(t, f, name) ==
    IF IsVariable(task[t].context.member)
    THEN findVariableDefinition(fs[f], name, f)
    ELSE findMixinDefinition(fs[f], name, f)

\* findForwardedMember returned a file, and the definition scan finds no
\* definition of the returned name in it
ScanAbsent(t) ==
    /\ task[t].context.argumentName = NoName
    /\ task[t].moduleFilePath # NoPath /\ task[t].ret.found
    /\ ~ScanOf(t, task[t].ret.filePath, task[t].ret.originalName).found

\* C12 as stated: an absent result at any step, the chain resolution by
\* findForwardedMember included, makes the lookup return absent
C12_AbsentAnyStep ==
    \A t \in Tasks :
        (Returned(t, "def")
           /\ (UseAbsent(t) \/ ModuleAbsent(t) \/ ChainAbsent(t) \/ ScanAbsent(t)))
        => task[t].result = NoDef

\* C12: no import for the alias, an unresolvable module path, or no matching
\* definition in the file findForwardedMember returned make the lookup return
\* absent; when findForwardedMember returns nothing the lookup goes on in the
\* module file itself, under the name asked for, and returns what the
\* definition scan of that file returns, a definition or absent
C12_AbsentSteps ==
    \A t \in Tasks :
        Returned(t, "def") =>
            /\ (UseAbsent(t) \/ ModuleAbsent(t) \/ ScanAbsent(t)) => task[t].result = NoDef
            /\ ChainAbsent(t) =>
                   task[t].result = ScanOf(t, task[t].moduleFilePath, task[t].context.member)

\* a lookup whose chain resolution found no re-export has returned a definition
\* of the module file; another came back with nothing for an alias no import binds
C12_FallsBackToModule ==
    /\ \E t \in Tasks :
           Returned(t, "def") /\ ChainAbsent(t) /\ task[t].result.found
    /\ \E t \in Tasks :
           Returned(t, "def") /\ UseAbsent(t) /\ task[t].result = NoDef

-----------------------------------------------------------------------------
(* C17 *)

\* module paths with the built-in prefix
BuiltinPaths == {SassMath, <<"sass:", "color">>, <<"sass:">>}

\* C17: resolveModule returns absent for every path that starts with "sass:",
\* also when package resolution would find a file for it; a lookup through an
\* alias bound to such a path awaits no file system call for the module and
\* returns absent
C17_BuiltinAbsent ==
    /\ \A mp \in BuiltinPaths :
           resolveModule(fs, cache, mp, Document, WorkspaceRoot) = NoPath
    /\ \A t \in Tasks :
           /\ (task[t].pc = "def_resolving" /\ Head(task[t].use) = "sass:") =>
                  ~task[t].io /\ running = t
           /\ (Returned(t, "def") /\ task[t].context.found
                 /\ task[t].context.namespace = S) =>
                  task[t].result = NoDef /\ task[t].moduleFilePath = NoPath

\* s.go has been looked up, s bound to "sass:math", while a stylesheet that
\* package resolution would find for that path is on disk
C17_BuiltinLookedUp ==
    \E t \in Tasks :
        /\ Returned(t, "def")
        /\ task[t].context.found /\ task[t].context.namespace = S
        /\ task[t].use = SassMath
        /\ resolvePackagePath(fs, cache, SassMath, Document, WorkspaceRoot)
               = ShadowOfSassMath

-----------------------------------------------------------------------------
(* Module resolution on its own: resolveModule called for "./x" and for the  *)
(* package "x" from the document, over disks that hold any of the candidate  *)
(* files, under the document's directory and under node_modules alike, and   *)
(* a package.json of any kind                                                *)

\* "./x" and the package name "x"
ToX == <<".", "x">>
PkgX == <<"x">>

\* what "./x" and "x" stand for, seen from the document
RelativeBase == <<"w", "x">>
PackageDir == <<"w", "node_modules", "x">>
PackageJson == Join(PackageDir, "package.json")

\* the entries a package.json may name: "lib/main.scss", "lib/alt.scss"
LibMain == <<"lib", "main.scss">>
LibAlt == <<"lib", "alt.scss">>

\* the eight places a stylesheet for base may be at, numbered in the order
\* base.scss, base.sass, base/_index.scss, base/_index.sass, base/index.scss,
\* base/index.sass, _base.scss, _base.sass
Places == 1..8
PlaceAt(base, n) ==
    CASE n = 1 -> WithExt(base, ".scss")
      [] n = 2 -> WithExt(base, ".sass")
      [] n = 3 -> Join(base, "_index.scss")
      [] n = 4 -> Join(base, "_index.sass")
      [] n = 5 -> Join(base, "index.scss")
      [] n = 6 -> Join(base, "index.sass")
      [] n = 7 -> Join(Dirname(base), ("_" \o Basename(base)) \o ".scss")
      [] OTHER -> Join(Dirname(base), ("_" \o Basename(base)) \o ".sass")

\* a text that JSON.parse rejects
NotJson == << VarLine(Own, 0) >>

\* the texts of package.json: unparsable, no entry field, "sass" only, "style"
\* only, both
ManifestTexts ==
    { NotJson, << ManifestLine(<<>>, <<>>) >>, << ManifestLine(LibMain, <<>>) >>,
      << ManifestLine(<<>>, LibMain) >>, << ManifestLine(LibMain, LibAlt) >> }

\* the disk with stylesheets at the given places under both bases, the
\* package.json if there is one, and the given entry files
DiskOf(places, hasManifest, manifest, entries) ==
    LET sheets == {PlaceAt(RelativeBase, n) : n \in places}
                      \cup {PlaceAt(PackageDir, n) : n \in places}
                      \cup {PackageDir \o e : e \in entries}
        manifests == IF hasManifest THEN {PackageJson} ELSE {}
    IN [f \in {Document} \cup sheets \cup manifests |->
           IF f = Document THEN << UseLine(ToX, <<>>), UseLine(PkgX, <<>>) >>
           ELSE IF f = PackageJson THEN manifest
           ELSE << MixinLine(Go, 0) >>]

ModuleDisks ==
    {DiskOf(places, hasManifest, manifest, entries) :
         places \in SUBSET Places, hasManifest \in BOOLEAN, manifest \in ManifestTexts,
         entries \in SUBSET {LibMain, LibAlt}}

ModulePaths == {ToX, PkgX, SassMath}

InitModules ==
    /\ fs \in ModuleDisks
    /\ cache = EmptyCache
    /\ visitedFiles = {}
    /\ running = NoTask
    /\ task = InitTasks

\* a caller awaits resolveModule(modulePath, document, workspaceRoot)
Resolve_Call(t, modulePath) ==
    /\ running = NoTask
    /\ task[t].pc \in {"idle", "done"}
    /\ task' = [task EXCEPT ![t] = [IdleTask EXCEPT !.op = "resolve",
                                                    !.pc = "res_resolving",
                                                    !.use = modulePath,
                                                    !.io = TouchesDisk(modulePath)]]
    /\ running' = IF TouchesDisk(modulePath) THEN NoTask ELSE t
    /\ UNCHANGED <<fs, cache, visitedFiles>>

\* resolveModule has returned to its caller
Resolve_Return(t) ==
    /\ CanStep(t)
    /\ task[t].pc = "res_resolving"
    /\ \E moduleFilePath \in
           {resolveModule(fs, cache, task[t].use, Document, WorkspaceRoot)} :
          task' = [task EXCEPT ![t].pc = "done", ![t].io = FALSE,
                               ![t].moduleFilePath = moduleFilePath]
    /\ cache' = CacheAfterResolve(fs, cache, task[t].use, Document, WorkspaceRoot)
    /\ running' = NoTask
    /\ UNCHANGED <<fs, visitedFiles>>

NextModules ==
    \/ \E modulePath \in ModulePaths : Resolve_Call("t1", modulePath)
    \/ Resolve_Return("t1")

SpecModules == InitModules /\ [][NextModules]_vars

\* the first of the places, taken in the given order, where the disk holds a
\* file; NoPath when it holds none
FirstOnDisk(base, order) ==
    LET held == {i \in 1..Len(order) : PlaceAt(base, order[i]) \in DOMAIN fs}
    IN IF held = {} THEN NoPath
       ELSE PlaceAt(base, order[CHOOSE i \in held : \A j \in held : i <= j])

-----------------------------------------------------------------------------
(* C14 *)

\* the order the relative resolver is said to try the places in
RelativeOrder == <<1, 2, 3, 4, 5, 6, 7, 8>>

\* C14: for the relative path "./x" resolveModule returns the first existing
\* file in the order x.scss, x.sass, x/_index.scss, x/_index.sass, x/index.scss,
\* x/index.sass, _x.scss, _x.sass, absent if none exists; the flat file wins
\* over x/_index.scss when both exist
C14_RelativeOrder ==
    (Returned("t1", "resolve") /\ task["t1"].use = ToX) =>
        /\ task["t1"].moduleFilePath = FirstOnDisk(RelativeBase, RelativeOrder)
        /\ <<"w", "x.scss">> \in DOMAIN fs => task["t1"].moduleFilePath = <<"w", "x.scss">>
        /\ (\A n \in Places : PlaceAt(RelativeBase, n) \notin DOMAIN fs) =>
               task["t1"].moduleFilePath = NoPath

\* "./x" has been resolved with both x.scss and x/_index.scss on disk
C14_FlatWins ==
    /\ Returned("t1", "resolve") /\ task["t1"].use = ToX
    /\ <<"w", "x.scss">> \in DOMAIN fs
    /\ <<"w", "x", "_index.scss">> \in DOMAIN fs
    /\ task["t1"].moduleFilePath = <<"w", "x.scss">>

-----------------------------------------------------------------------------
(* C15 *)

\* the package directory holds no package.json
NoManifest == PackageJson \notin DOMAIN fs

\* C15 as stated: without a manifest entry the package "x" resolves to the
\* first existing file in the order of the relative resolver, rooted at the
\* package directory: with the same files under both roots, the package
\* fallback picks the place the relative resolver picks
C15_SameOrder ==
    (Returned("t1", "resolve") /\ task["t1"].use = PkgX /\ NoManifest) =>
        /\ task["t1"].moduleFilePath = FirstOnDisk(PackageDir, RelativeOrder)
        /\ \A n \in Places :
               resolveModule(fs, cache, ToX, Document, WorkspaceRoot)
                   = PlaceAt(RelativeBase, n)
               => task["t1"].moduleFilePath = PlaceAt(PackageDir, n)

-----------------------------------------------------------------------------
(* C16 *)

\* the order the package fallback tries the places in: index.scss, _index.scss,
\* index.sass, _index.sass, x.scss, x.sass, _x.scss, _x.sass
PackageOrder == <<5, 3, 6, 4, 1, 2, 7, 8>>

\* the entry the package.json on disk declares: "sass", else "style"; <<>>
\* when there is no package.json, when it is not JSON, when it has neither
DeclaredEntry ==
    IF PackageJson \notin DOMAIN fs THEN <<>>
    ELSE IF fs[PackageJson] = NotJson THEN <<>>
    ELSE IF fs[PackageJson][1].sass # <<>> THEN fs[PackageJson][1].sass
    ELSE fs[PackageJson][1].style

\* C16: for the package "x", resolveModule returns <packageDir>/<entry> when
\* the manifest declares an entry ("sass", else "style") and that file exists,
\* whatever default candidates exist; otherwise it returns what the default
\* candidate list gives
C16_ManifestEntry ==
    (Returned("t1", "resolve") /\ task["t1"].use = PkgX) =>
        IF DeclaredEntry # <<>> /\ (PackageDir \o DeclaredEntry) \in DOMAIN fs
        THEN task["t1"].moduleFilePath = PackageDir \o DeclaredEntry
        ELSE task["t1"].moduleFilePath = FirstOnDisk(PackageDir, PackageOrder)

\* the package has been resolved to the file its "sass" field names, with a
\* "style" field naming another existing file and index.scss on disk too
C16_EntryBypassesDefaults ==
    /\ Returned("t1", "resolve") /\ task["t1"].use = PkgX
    /\ PackageJson \in DOMAIN fs
    /\ fs[PackageJson] = << ManifestLine(LibMain, LibAlt) >>
    /\ (PackageDir \o LibAlt) \in DOMAIN fs
    /\ Join(PackageDir, "index.scss") \in DOMAIN fs
    /\ task["t1"].moduleFilePath = PackageDir \o LibMain

-----------------------------------------------------------------------------
(* The cache on its own: any sequence of set, get, notifications and          *)
(* deactivation                                                               *)

CachePaths == {Document, FileA, FileB}

\* the texts set: the empty text among them
CacheTexts == { <<>>, << MixinLine(Go, 0) >>, << VarLine(Own, 0) >> }

InitCache ==
    /\ fs = [f \in CachePaths |-> << MixinLine(Go, 0) >>]
    /\ cache = EmptyCache
    /\ visitedFiles = {}
    /\ running = NoTask
    /\ task = InitTasks

NextCache ==
    \/ \E filePath \in CachePaths, content \in CacheTexts :
           Cache_Set("t1", filePath, content)
    \/ \E filePath \in CachePaths : Cache_Get("t1", filePath)
    \/ \E filePath \in CachePaths : Cache_Changed("t1", filePath)
    \/ \E filePaths \in SUBSET CachePaths : Cache_Deleted("t1", filePaths)
    \/ Cache_Deactivate("t1")

SpecCache == InitCache /\ [][NextCache]_vars

-----------------------------------------------------------------------------
(* C19 *)

\* a get has returned what the history says: the text of the latest set of
\* the path, or absent when none is left standing
GetAgrees ==
    task["t1"].op = "get" =>
        LET filePath == task["t1"].input.filePath
        IN task["t1"].got = IF filePath \in DOMAIN task["t1"].latest
                            THEN Text(task["t1"].latest[filePath])
                            ELSE NoText

\* a notification removes the entries of the paths notified and no other
NotificationLocal ==
    task'["t1"].op \in {"changed", "deleted"} =>
        /\ \A q \in DOMAIN cache' : q \in DOMAIN cache /\ cache'[q] = cache[q]
        /\ \A q \in DOMAIN cache \ DOMAIN cache' :
               \/ task'["t1"].op = "changed" /\ q = task'["t1"].input.filePath
               \/ task'["t1"].op = "deleted"
        /\ task'["t1"].op = "changed" =>
               task'["t1"].input.filePath \notin DOMAIN cache'

\* C19: over any sequence of set, get, notifications and deactivation, get(p)
\* returns the text of the latest set(p) that no notification for p and no
\* deactivation has followed, absent otherwise; a notification for p removes
\* p's entry and leaves every other entry as it was
C19_CacheContract == []GetAgrees /\ [][NotificationLocal]_vars

\* a get has returned absent for a.scss while b.scss, set to the empty text,
\* still has its entry
C19_InvalidatedOnly ==
    /\ task["t1"].op = "get"
    /\ task["t1"].got = NoText
    /\ task["t1"].input.filePath = FileA
    /\ FileB \in DOMAIN cache /\ cache[FileB] = <<>>

-----------------------------------------------------------------------------
(* The completion context on its own: getCompletionContext applied to the     *)
(* texts made of up to MaxPieces of the pieces below, the cursor at the end   *)

MaxPieces == 5

Pieces ==
    { Include, Include \o <<" ">>, <<" ">>, <<"m">>, <<".">>, <<"$">>, <<"(">>, <<")">>,
      <<":">> }

RECURSIVE TextsOf(_)
TextsOf(n) ==
    IF n = 0 THEN {<<>>}
    ELSE TextsOf(n - 1) \cup {x \o y : x \in TextsOf(n - 1), y \in Pieces}

InitContext ==
    /\ fs = [f \in {Document} |-> DocumentText]
    /\ cache = EmptyCache
    /\ visitedFiles = {}
    /\ running = NoTask
    /\ task \in {[t \in Tasks |->
                     IF t = "t1"
                     THEN [IdleTask EXCEPT !.input = [NoInput EXCEPT !.line = text,
                                                                     !.cursor = Len(text)]]
                     ELSE IdleTask] : text \in TextsOf(MaxPieces)}

\* the editor asks for completions: the context is classified
Context_Classify(t) ==
    /\ task[t].pc = "idle"
    /\ task' = [task EXCEPT
           ![t].op = "context", ![t].pc = "done",
           ![t].completion = getCompletionContext(task[t].input.line, task[t].input.cursor)]
    /\ UNCHANGED <<fs, cache, visitedFiles, running>>

NextContext == Context_Classify("t1")

SpecContext == InitContext /\ [][NextContext]_vars

-----------------------------------------------------------------------------
(* C20 *)

\* the 0-based index of the last "." of a text, -1 when it has none
LastDot(text) ==
    IF \E i \in 1..Len(text) : text[i] = "."
    THEN (CHOOSE i \in 1..Len(text) : text[i] = "." /\ \A j \in (i + 1)..Len(text) : text[j] # ".") - 1
    ELSE -1

\* C20: the context is the first of mixin-call arguments, after-alias-dot and
\* bare dollar whose test the text before the cursor passes, none when it
\* passes no test; after an alias and a dot the filter is variable-only when a
\* "$" follows the dot, else mixin-only when "@include" and a blank precede the
\* cursor, else variable-only when a name and a ":" precede it, else both
C20_OrderedTests ==
    Returned("t1", "context") =>
        LET text == task["t1"].input.line
            c == task["t1"].completion
        IN /\ c.type \in {"mixinArgument", "namespaceMember", "scopeVariable", "none"}
           /\ c.type = IF MixinArgMatch(text).found THEN "mixinArgument"
                       ELSE IF NamespaceMemberMatch(text).found THEN "namespaceMember"
                       ELSE IF ScopeVarMatch(text) THEN "scopeVariable"
                       ELSE "none"
           /\ c.type = "namespaceMember" =>
                  c.memberFilter =
                      IF CharAt(text, LastDot(text) + 1) = "$" THEN "variable"
                      ELSE IF IncludeBefore(text) THEN "mixin"
                      ELSE IF PropertyBefore(text) THEN "variable"
                      ELSE "both"
           /\ c.type # "namespaceMember" => c.memberFilter = "none"

\* after "m:@include m." the filter is mixin-only, the keyword and the
\* property both before the cursor
C20_IncludeBeforeProperty ==
    /\ Returned("t1", "context")
    /\ task["t1"].input.line =
           <<"m", ":">> \o Include \o <<" ", "m", ".">>
    /\ task["t1"].completion.type = "namespaceMember"
    /\ task["t1"].completion.memberFilter = "mixin"

-----------------------------------------------------------------------------
(* C18 *)

\* the column of the "$" of the k-th parameter on a mixin line
RECURSIVE OwnColumn(_, _)
OwnColumn(line, k) ==
    IF k = 1 THEN line.col + Len(MixinKeyword) + 1 + Len(line.name) + 1
    ELSE OwnColumn(line, k - 1) + Len(ParamChars(line.params[k - 1])) + 2

\* the request of task t was for an argument of an @include of a mixin of
\* a.scss, which re-exports nothing, and has returned
ArgumentLookedUp(t) ==
    /\ Returned(t, "def")
    /\ task[t].context.found /\ task[t].context.argumentName # NoName
    /\ task[t].context.namespace = M
    /\ ForwardsOf(FileA) = <<>>

\* C18 as stated: with the cursor on $argName in the arguments of
\* "@include m.mixin(...)", the lookup returns the line and the column of the
\* parameter's own $argName in the parameter list of the mixin, and absent
\* when the mixin has no parameter of that name
C18_OwnToken ==
    \A t \in Tasks :
        ArgumentLookedUp(t) =>
            LET i == FirstLineNamed(fs[FileA], "mixin", task[t].context.member)
                named == IF i = 0 THEN {}
                         ELSE {k \in 1..Len(fs[FileA][i].params) :
                                  fs[FileA][i].params[k].name = task[t].context.argumentName}
            IN IF named = {} THEN task[t].result = NoDef
               ELSE task[t].result =
                        [found |-> TRUE, filePath |-> FileA, line |-> i - 1,
                         column |-> OwnColumn(fs[FileA][i],
                                              CHOOSE k \in named : \A o \in named : k <= o)]

-----------------------------------------------------------------------------
(* C13 *)

\* the request of task t has ended after a readFile of its chain was rejected
ReadRejected(t) == task[t].pc = "done" /\ task[t].failed # "none"

-----------------------------------------------------------------------------
(* C24 *)

\* C24: a top-level findForwardedMember on a.scss, which is on no stack, returns
\* absent exactly when no @forward of a.scss both matches the name (no prefix,
\* or the name without "$" starts with the prefix) and resolves; and while the
\* loop of any frame stands at a statement, every statement before it does not
\* match or does not resolve, so none of those has stopped the scan
C24_AbsentIff ==
    /\ Returned("t1", "ffm") =>
           (task["t1"].ret.found <=> FollowedIn(FileA, task["t1"].input.memberName) # {})
    /\ task["t1"].op = "ffm" /\ task["t1"].pc \in {"ffm_resolving", "ffm_reading"} =>
           \A n \in 1..(Top("t1").i - 1) :
               ~Follows(Top("t1").file, ForwardsOf(Top("t1").file)[n], Top("t1").name)

\* a call has returned a result from a second statement, the first having a
\* prefix the name does not start with or a path that resolves to nothing
C24_ScanWentOn ==
    /\ Returned("t1", "ffm")
    /\ task["t1"].ret.found
    /\ FollowedIn(FileA, task["t1"].input.memberName) = {2}
    /\ ForwardsOf(FileA)[1].path = ToZ


-----------------------------------------------------------------------------
(* C21: what bounds one traversal *)

\* the files of the wide module graphs
WideFiles == {FileA, FileB, FileC, FileD}

\* C21 as stated: a top-level traversal, findForwardedMember or
\* findAllForwardedMembers, expands at most as many frames as the module graph
\* has distinct files
C21_FrameBound ==
    task["t1"].op \in {"ffm", "all"} => task["t1"].expanded <= Cardinality(WideFiles)

\* C21: a traversal never has more frames on its stack than the module graph
\* has distinct files, and findForwardedMember, which follows one chain,
\* expands at most that many frames in all; findAllForwardedMembers expands a
\* file once for every path of re-exports that leads to it
C21_DepthBound ==
    /\ task["t1"].op \in {"ffm", "all"} => Len(task["t1"].stack) <= Cardinality(WideFiles)
    /\ task["t1"].op = "ffm" => task["t1"].expanded <= Cardinality(WideFiles)
    /\ task["t1"].op = "all" =>
           \A d \in 1..Len(task["t1"].stack), e \in 1..Len(task["t1"].stack) :
               task["t1"].stack[d].file = task["t1"].stack[e].file => d = e

\* an enumeration of a.scss has ended after expanding d.scss through b.scss
\* and through c.scss: five frames for four files
C21_ExpandedTwice ==
    /\ Returned("t1", "all")
    /\ task["t1"].expanded > Cardinality(WideFiles)


-----------------------------------------------------------------------------
(* C23: the guard set is the stack *)

\* the files of the frames of t's traversal
StackFiles(t) == {task[t].stack[d].file : d \in 1..Len(task[t].stack)}

\* C23: while the one traversal runs, the guard set holds exactly the files of
\* the frames on the stack, each once; when the top-level call has finished,
\* with a result, with nothing, after a refusal or with a read error, the
\* guard set is empty as it was before the call
C23_GuardIsStack ==
    /\ task["t1"].op = "ffm" =>
           /\ visitedFiles = StackFiles("t1")
           /\ Cardinality(visitedFiles) = Len(task["t1"].stack)
    /\ task["t1"].op = "all" =>
           /\ task["t1"].visited = StackFiles("t1")
           /\ Cardinality(task["t1"].visited) = Len(task["t1"].stack)
           /\ visitedFiles = {}
    /\ task["t1"].op = "none" => visitedFiles = {}
    /\ task["t1"].pc = "done" => task["t1"].stack = <<>>

\* findForwardedMember has ended with the error of a read that failed in the
\* second frame: both frames have left the guard set
C23_ThrownFromDepth ==
    /\ Returned("t1", "ffm")
    /\ task["t1"].error
    /\ task["t1"].expanded >= 2
    /\ visitedFiles = {}


-----------------------------------------------------------------------------
(* C25: a refusal ends one branch only *)

\* a.scss re-exports b.scss and then c.scss, both re-export d.scss only, and
\* d.scss re-exports nothing or a.scss, which is on the stack by then
Diamond ==
    /\ DOMAIN fs = WideFiles
    /\ Len(ForwardsOf(FileA)) = 2
    /\ TargetOf(FileA, ForwardsOf(FileA)[1]) = FileB
    /\ TargetOf(FileA, ForwardsOf(FileA)[2]) = FileC
    /\ Len(ForwardsOf(FileB)) = 1 /\ TargetOf(FileB, ForwardsOf(FileB)[1]) = FileD
    /\ Len(ForwardsOf(FileC)) = 1 /\ TargetOf(FileC, ForwardsOf(FileC)[1]) = FileD

\* what one branch of the diamond brings from d.scss under the prefixes of its
\* hops: the public definitions of d.scss and, where d.scss re-exports a.scss,
\* those of a.scss, the way back into a.scss refused
ThroughD(type, prefix) ==
    DirectMembers(findAllDefinitions(fs[FileD], KindOf(type), FileD), prefix)
        \o (IF ForwardsOf(FileD) = <<>> THEN <<>>
            ELSE DirectMembers(findAllDefinitions(fs[FileA], KindOf(type), FileA),
                               prefix \o ForwardsOf(FileD)[1].prefix))

\* C25: enumerating a.scss in the diamond yields what d.scss brings twice,
\* first under the prefixes of the branch through b.scss, then under those of
\* the branch through c.scss; the re-export of d.scss that points back to
\* a.scss is refused on each branch and ends neither
C25_SiblingBranches ==
    (Returned("t1", "all") /\ ~task["t1"].error /\ Diamond) =>
        SelectSeq(task["t1"].members, LAMBDA e : e.filePath \in {FileD, FileA})
            = ThroughD(task["t1"].input.type,
                       ForwardsOf(FileA)[1].prefix \o ForwardsOf(FileB)[1].prefix)
                \o ThroughD(task["t1"].input.type,
                            ForwardsOf(FileA)[2].prefix \o ForwardsOf(FileC)[1].prefix)

\* the diamond enumerated, b.scss re-exported as p-* and c.scss as it is,
\* d.scss pointing back to a.scss: $primary of d.scss is there as $p-primary
\* and as $primary
C25_DiamondDone ==
    /\ Returned("t1", "all") /\ ~task["t1"].error /\ Diamond
    /\ task["t1"].input.type = "variable"
    /\ ForwardsOf(FileD) # <<>>
    /\ ForwardsOf(FileA)[1].prefix = P \o <<"-">>
    /\ ForwardsOf(FileA)[2].prefix = NoName
    /\ \E n \in 1..Len(task["t1"].members), m \in 1..Len(task["t1"].members) :
           /\ n < m
           /\ task["t1"].members[n].filePath = FileD
           /\ task["t1"].members[m].filePath = FileD
           /\ task["t1"].members[n].name = <<"$">> \o (P \o <<"-">>) \o Tail(Primary)
           /\ task["t1"].members[m].name = Primary


-----------------------------------------------------------------------------
(* C26: the order of the list *)

RECURSIVE ListedBy(_, _, _), ListedFrom(_, _, _, _)
\* the members a file brings when the files of onStack are being expanded:
\* nothing if it is one of them, else the blocks of its declarations from the
\* first on
ListedBy(f, type, onStack) ==
    IF f \in onStack THEN <<>> ELSE ListedFrom(f, type, onStack \cup {f}, 1)

\* the blocks of the declarations of f from the n-th on, in declaration order;
\* the block of a declaration: the public definitions of its target in source
\* order, then what the target's own re-exports bring, all under its prefix
ListedFrom(f, type, onStack, n) ==
    IF n > Len(ForwardsOf(f)) THEN <<>>
    ELSE (IF TargetOf(f, ForwardsOf(f)[n]) = NoPath THEN <<>>
          ELSE DirectMembers(findAllDefinitions(fs[TargetOf(f, ForwardsOf(f)[n])],
                                                KindOf(type),
                                                TargetOf(f, ForwardsOf(f)[n])),
                             ForwardsOf(f)[n].prefix)
                 \o NestedMembers(ListedBy(TargetOf(f, ForwardsOf(f)[n]), type, onStack),
                                  ForwardsOf(f)[n].prefix))
         \o ListedFrom(f, type, onStack, n + 1)

\* C26: the list findAllForwardedMembers returns is the blocks of the
\* declarations in declaration order, and in the block of a declaration the
\* definitions of the target file, in their source order, come before what the
\* target's own re-exports bring
C26_DeclarationOrder ==
    (Returned("t1", "all") /\ ~task["t1"].error /\ DOMAIN fs = WideFiles) =>
        task["t1"].members = ListedBy(FileA, task["t1"].input.type, {})

\* a list of two blocks has come back: that of b.scss, with the variables of
\* b.scss and behind them those of d.scss, and that of c.scss
C26_TwoBlocks ==
    /\ Returned("t1", "all") /\ ~task["t1"].error /\ DOMAIN fs = WideFiles
    /\ task["t1"].input.type = "variable"
    /\ Len(ForwardsOf(FileA)) = 2
    /\ TargetOf(FileA, ForwardsOf(FileA)[1]) = FileB
    /\ TargetOf(FileA, ForwardsOf(FileA)[2]) = FileC
    /\ \E i, j, k \in 1..Len(task["t1"].members) :
           /\ i < j /\ j < k
           /\ task["t1"].members[i].filePath = FileB
           /\ task["t1"].members[j].filePath = FileD
           /\ task["t1"].members[k].filePath = FileC


-----------------------------------------------------------------------------
(* C22: enumerations in flight at once *)

\* C22: each of two overlapping top-level calls of findAllForwardedMembers
\* checks and fills its own visited set, the files of its own stack, and
\* returns the list it returns when it runs alone
C22_SameListAsAlone ==
    \A t \in Tasks :
        /\ task[t].op = "all" => task[t].visited = StackFiles(t)
        /\ Returned(t, "all") =>
               task[t].members = ListedBy(task[t].input.filePath, task[t].input.type, {})

\* both calls have returned, the second made while the first was suspended,
\* each after expanding d.scss on two branches or behind b.scss
C22_BothReturned ==
    /\ Returned("t1", "all") /\ Returned("t2", "all")
    /\ task["t1"].input.type # task["t2"].input.type
    /\ task["t1"].input.filePath = task["t2"].input.filePath
    /\ task["t1"].expanded >= 5
    /\ task["t2"].expanded >= 5


-----------------------------------------------------------------------------
(* Package resolution on its own: resolvePackagePath for the package "x",    *)
(* called for files under the workspace folder and outside it, over disks    *)
(* that hold node_modules at any level, with the package or without          *)

\* the cache once one turn of the loop has looked at currentDir: the
\* package.json of the package there, if readPackageJson read it from disk
CacheAfterLevel(disk, cached, modulePath, currentDir) ==
    LET read == ManifestsRead(disk, cached, modulePath, currentDir, currentDir)
    IN [q \in DOMAIN cached \cup read |->
           IF q \in DOMAIN cached THEN cached[q] ELSE disk[q]]

\* a loop that stops on reaching the directory below workspaceRoot
Pkg_LevelBelowRoot(t) ==
    /\ CanStep(t)
    /\ task[t].pc = "pkg_level"
    /\ \E nodeModulesPath \in {Join(task[t].currentDir, "node_modules")} :
       \E resolved \in {IF Exists(fs, nodeModulesPath)
                        THEN resolveInNodeModules(fs, cache, task[t].use, nodeModulesPath)
                        ELSE NoPath} :
          IF resolved # NoPath
          THEN task' = [task EXCEPT ![t].pc = "done", ![t].io = FALSE,
                                    ![t].checked = Append(@, task[t].currentDir),
                                    ![t].moduleFilePath = resolved]
          ELSE IF Dirname(task[t].currentDir) = task[t].currentDir
                  \/ Dirname(task[t].currentDir) = task[t].workspaceRoot
               THEN task' = [task EXCEPT ![t].pc = "done", ![t].io = FALSE,
                                         ![t].checked = Append(@, task[t].currentDir),
                                         ![t].moduleFilePath = NoPath]
               ELSE task' = [task EXCEPT ![t].checked = Append(@, task[t].currentDir),
                                         ![t].currentDir = Dirname(@)]
    /\ cache' = CacheAfterLevel(fs, cache, task[t].use, task[t].currentDir)
    /\ running' = NoTask
    /\ UNCHANGED <<fs, visitedFiles>>

\* a caller awaits resolvePackagePath(modulePath, currentFilePath, workspaceRoot):
\* currentDir = path.dirname(currentFilePath), then the first await of the loop
Pkg_Call(t, modulePath, currentFilePath, workspaceRoot) ==
    /\ running = NoTask
    /\ task[t].pc \in {"idle", "done"}
    /\ task' = [task EXCEPT ![t] = [IdleTask EXCEPT
                   !.op = "package", !.pc = "pkg_level", !.io = TRUE,
                   !.use = modulePath,
                   !.input = [NoInput EXCEPT !.filePath = currentFilePath],
                   !.workspaceRoot = workspaceRoot,
                   !.currentDir = Dirname(currentFilePath)]]
    /\ running' = NoTask
    /\ UNCHANGED <<fs, cache, visitedFiles>>

\* one turn of the loop: node_modules of currentDir looked at and, if it is
\* there, the package resolved in it; a resolved path is returned; else the loop
\* ends at the file-system root or at workspaceRoot, or goes on one level up
Pkg_Level(t) ==
    /\ CanStep(t)
    /\ task[t].pc = "pkg_level"
    /\ \E nodeModulesPath \in {Join(task[t].currentDir, "node_modules")} :
       \E resolved \in {IF Exists(fs, nodeModulesPath)
                        THEN resolveInNodeModules(fs, cache, task[t].use, nodeModulesPath)
                        ELSE NoPath} :
          IF resolved # NoPath
          THEN task' = [task EXCEPT ![t].pc = "done", ![t].io = FALSE,
                                    ![t].checked = Append(@, task[t].currentDir),
                                    ![t].moduleFilePath = resolved]
          ELSE IF Dirname(task[t].currentDir) = task[t].currentDir
                  \/ task[t].currentDir = task[t].workspaceRoot
               THEN task' = [task EXCEPT ![t].pc = "done", ![t].io = FALSE,
                                         ![t].checked = Append(@, task[t].currentDir),
                                         ![t].moduleFilePath = NoPath]
               ELSE task' = [task EXCEPT ![t].checked = Append(@, task[t].currentDir),
                                         ![t].currentDir = Dirname(@)]
    /\ cache' = CacheAfterLevel(fs, cache, task[t].use, task[t].currentDir)
    /\ running' = NoTask
    /\ UNCHANGED <<fs, visitedFiles>>

\* the directories that may hold node_modules: the file-system root, the
\* workspace folder w, w/s, and o and o/s outside the workspace folder
Levels == { <<>>, <<"w">>, <<"w", "s">>, <<"o">>, <<"o", "s">> }

\* what one level holds: "none" no node_modules, "other" node_modules without
\* the package, "index" the package with its index.scss, "entry" the package
\* with a package.json that names lib/main.scss
LevelKinds == {"none", "other", "index", "entry"}

FilesAt(dir, kind) ==
    CASE kind = "none" -> {}
      [] kind = "other" -> {<<Join(Join(dir, "node_modules"), "y.scss"), << MixinLine(Go, 0) >> >>}
      [] kind = "index" ->
             {<<Join(Join(dir, "node_modules") \o PkgX, "index.scss"), << MixinLine(Go, 0) >> >>}
      [] OTHER ->
             {<<Join(Join(dir, "node_modules") \o PkgX, "package.json"),
                << ManifestLine(LibMain, <<>>) >> >>,
              <<(Join(dir, "node_modules") \o PkgX) \o LibMain, << MixinLine(Go, 0) >> >>}

\* the stylesheets resolvePackagePath is called for
Callers == { <<"w", "main.scss">>, <<"w", "s", "f.scss">>, <<"o", "f.scss">>,
             <<"o", "s", "f.scss">> }

PackageDiskOf(kinds) ==
    LET held == UNION {FilesAt(dir, kinds[dir]) : dir \in Levels}
                    \cup {<<f, << UseLine(PkgX, <<>>) >> >> : f \in Callers}
    IN [f \in {e[1] : e \in held} |-> (CHOOSE e \in held : e[1] = f)[2]]

PackageDisks == {PackageDiskOf(kinds) : kinds \in [Levels -> LevelKinds]}

WorkspaceRoots == { <<"w">>, <<"w", "s">> }

InitPackages ==
    /\ fs \in PackageDisks
    /\ cache = EmptyCache
    /\ visitedFiles = {}
    /\ running = NoTask
    /\ task = InitTasks

NextPackages ==
    \/ \E currentFilePath \in Callers, workspaceRoot \in WorkspaceRoots :
           Pkg_Call("t1", PkgX, currentFilePath, workspaceRoot)
    \/ Pkg_Level("t1")

SpecPackages == InitPackages /\ [][NextPackages]_vars

-----------------------------------------------------------------------------
(* C27 *)

\* dir is root or lies under it
Under(dir, root) == Len(dir) >= Len(root) /\ SubSeq(dir, 1, Len(root)) = root

\* the package resolves in the node_modules of dir
ResolvesAt(dir) ==
    /\ Exists(fs, Join(dir, "node_modules"))
    /\ resolveInNodeModules(fs, cache, PkgX, Join(dir, "node_modules")) # NoPath

\* C27: the loop looks at the directory of currentFilePath first and then at
\* each parent in turn; called for a file under workspaceRoot it looks at no
\* directory above workspaceRoot and, if the package resolves nowhere, has
\* looked at workspaceRoot itself; called for another file it ends at the
\* file-system root; it returns what the first level that resolves gives
C27_WalkUpward ==
    task["t1"].op = "package" =>
        LET checked == task["t1"].checked
            start == Dirname(task["t1"].input.filePath)
            root == task["t1"].workspaceRoot
        IN /\ \A n \in 1..Len(checked) :
                  /\ checked[n] = SubSeq(start, 1, Len(start) - (n - 1))
                  /\ Under(start, root) => Under(checked[n], root)
                  /\ n < Len(checked) => ~ResolvesAt(checked[n])
           /\ task["t1"].pc = "done" =>
                  /\ checked # <<>>
                  /\ IF ResolvesAt(checked[Len(checked)])
                     THEN task["t1"].moduleFilePath
                              = resolveInNodeModules(fs, cache, PkgX,
                                    Join(checked[Len(checked)], "node_modules"))
                     ELSE /\ task["t1"].moduleFilePath = NoPath
                          /\ checked[Len(checked)] = (IF Under(start, root) THEN root ELSE <<>>)
                  /\ task["t1"].moduleFilePath
                         = resolvePackagePath(fs, cache, PkgX, task["t1"].input.filePath, root)

\* called for w/s/f.scss with the workspace folder w, the package held only by
\* the node_modules of the file-system root: w/s and w looked at, absent returned
C27_StoppedAtRoot ==
    /\ Returned("t1", "package")
    /\ task["t1"].input.filePath = <<"w", "s", "f.scss">>
    /\ task["t1"].workspaceRoot = <<"w">>
    /\ ResolvesAt(<<>>)
    /\ Exists(fs, <<"w", "node_modules">>)
    /\ task["t1"].checked = << <<"w", "s">>, <<"w">> >>
    /\ task["t1"].moduleFilePath = NoPath


-----------------------------------------------------------------------------
(* C28 *)

\* C28: a member lookup that no other request overlapped, whose module file
\* holds a definition of the member, returns that definition, whatever the
\* module file re-exports
C28_DirectDefinitionWins ==
    \A t \in Tasks :
        (/\ Returned(t, "def") /\ ~task[t].error
         /\ \A o \in Tasks \ {t} : task[o].op = "none"
         /\ task[t].context.found /\ task[t].context.cursorTarget = "member"
         /\ task[t].context.argumentName = NoName
         /\ task[t].moduleFilePath # NoPath
         /\ ScanOf(t, task[t].moduleFilePath, task[t].context.member).found) =>
            task[t].result = ScanOf(t, task[t].moduleFilePath, task[t].context.member)


-----------------------------------------------------------------------------
(* Definition requests on include lines: one request, the cursor at any      *)
(* character of the line                                                      *)

\* the calls on the lines: namespace, mixin and the text between the
\* parentheses.  @include m.pad($a: n.$own); @include m.pad((1), $ a-b: n.$own);
\* @include n.reset(m.$own, $go: 1);
ArgumentCalls ==
    { [ns |-> M, mixin |-> Pad, args |-> <<"$", "a", ":", " ">> \o N \o <<".">> \o Own],
      [ns |-> M, mixin |-> Pad,
       args |-> <<"(", "1", ")", ",", " ", "$", " ", "a", "-", "b", ":", " ">>
                    \o N \o <<".">> \o Own],
      [ns |-> N, mixin |-> Reset,
       args |-> M \o <<".">> \o Own \o <<",", " ", "$">> \o Go \o <<":", " ", "1">>] }

\* the lines of the calls, and a call whose parenthesis is never closed:
\* @include m.pad($a: n.$own
ArgumentLines ==
    {IncludeLine(c.ns, c.mixin, c.args) : c \in ArgumentCalls}
        \cup {Include \o <<" ">> \o M \o <<".">> \o Pad \o <<"(", "$", "a", ":", " ">>
                  \o N \o <<".">> \o Own}

\* the last character position the cursor is put at
MaxCursor == 34

NextArguments ==
    \/ \E line \in ArgumentLines, cursorChar \in 0..MaxCursor :
           Def_Start("t1", line, cursorChar)
    \/ Def_CurrentRead("t1")
    \/ Def_ModuleResolved("t1")
    \/ Def_ModuleRead("t1")
    \/ FFM_Enter("t1")
    \/ FFM_Statement("t1")
    \/ FFM_Resolved("t1")
    \/ FFM_Read("t1")
    \/ FFM_Return("t1")
    \/ Def_Forwarded("t1")
    \/ Def_TargetRead("t1")

SpecArguments == InitEditor /\ [][NextArguments]_vars

-----------------------------------------------------------------------------
(* C30 *)

\* the index of the "(" of the call on its line
ParenOf(c) == Len(Include) + 1 + Len(c.ns) + 1 + Len(c.mixin)

RECURSIVE PastBlanks(_, _), PastName(_, _)
\* the first position from j on that holds no blank
PastBlanks(args, j) ==
    IF j <= Len(args) /\ args[j] = " " THEN PastBlanks(args, j + 1) ELSE j

\* the first position from j on that holds no character of a name
PastName(args, j) ==
    IF j <= Len(args) /\ args[j] \in WordChars \cup {"-"} THEN PastName(args, j + 1) ELSE j

\* the "$" at position i of the argument text starts a $name
StartsName(args, i) ==
    args[i] = "$" /\ PastName(args, PastBlanks(args, i + 1)) > PastBlanks(args, i + 1)

\* the name of the $name that starts at position i
NameFrom(args, i) ==
    SubSeq(args, PastBlanks(args, i + 1), PastName(args, PastBlanks(args, i + 1)) - 1)

\* the $names of the argument text the position rel, counted from 0 behind the
\* "(", lies within: from the "$" to behind the last character of the name
NamesAround(args, rel) ==
    {i \in 1..Len(args) :
        /\ StartsName(args, i)
        /\ rel >= i - 1
        /\ rel <= PastName(args, PastBlanks(args, i + 1)) - 1}

\* what the parameter lookup for the name gives: the mixin of the call looked
\* up through the alias and the re-exports, then the parameter in its list
ParameterLookup(c, name) ==
    LET useStatement == findUseByNamespace(fs[Document], c.ns)
        moduleFilePath == resolveModule(fs, cache, useStatement.path, Document,
                                        WorkspaceRoot)
        forwardedResult == FirstFollowedResult(moduleFilePath, c.mixin, {})
    IN IF ~useStatement.found \/ moduleFilePath = NoPath THEN NoDef
       ELSE IF forwardedResult.found
            THEN ArgumentDefinition(fs[forwardedResult.filePath],
                                    forwardedResult.originalName,
                                    forwardedResult.filePath, name)
            ELSE ArgumentDefinition(fs[moduleFilePath], c.mixin, moduleFilePath, name)

-----------------------------------------------------------------------------
(* readFile while the disk changes: two callers read a.scss, another program *)
(* writes and deletes it, the editor notifies the cache manager               *)

\* readFile(filePath) up to its await: a cache hit returns at once, a miss
\* awaits fs.promises.readFile
Read_Call(t, filePath) ==
    /\ running = NoTask
    /\ task[t].pc \in {"idle", "done"}
    /\ task' = [task EXCEPT ![t] =
           [IdleTask EXCEPT
               !.op = "read",
               !.input = [NoInput EXCEPT !.filePath = filePath],
               !.unnotified = task[t].unnotified,
               !.settled = filePath \notin task[t].unnotified,
               !.got = CacheGet(cache, filePath),
               !.pc = IF CacheGet(cache, filePath).found THEN "done" ELSE "read_pending",
               !.io = ~CacheGet(cache, filePath).found]]
    /\ UNCHANGED <<fs, cache, visitedFiles, running>>

\* fs.promises.readFile reads the file, or finds none; the caller has not run
\* on yet
Read_Fetched(t) ==
    /\ task[t].pc = "read_pending"
    /\ IF task[t].input.filePath \in DOMAIN fs
       THEN task' = [task EXCEPT ![t].pc = "read_fetched",
                                 ![t].content = fs[task[t].input.filePath]]
       ELSE task' = [task EXCEPT ![t].pc = "read_rejected"]
    /\ UNCHANGED <<fs, cache, visitedFiles, running>>

\* the caller runs on with the text: cacheManager.set, return content
Read_Return(t) ==
    /\ running = NoTask
    /\ task[t].pc = "read_fetched"
    /\ cache' = CacheSet(cache, task[t].input.filePath, task[t].content)
    /\ task' = [task EXCEPT ![t].pc = "done", ![t].io = FALSE,
                            ![t].got = Text(task[t].content)]
    /\ UNCHANGED <<fs, visitedFiles, running>>

\* the caller runs on with the rejection: logged and thrown again
Read_Thrown(t) ==
    /\ running = NoTask
    /\ task[t].pc = "read_rejected"
    /\ task' = [task EXCEPT ![t].pc = "done", ![t].io = FALSE, ![t].error = TRUE]
    /\ UNCHANGED <<fs, cache, visitedFiles, running>>

\* the chains told of a change of p on disk
Told(p) ==
    [t \in Tasks |-> [task[t] EXCEPT !.unnotified = @ \cup {p},
                                     !.settled = @ /\ task[t].input.filePath # p]]

\* another program writes p
Disk_Write(p, content) ==
    /\ ~(p \in DOMAIN fs /\ fs[p] = content)
    /\ fs' = [q \in DOMAIN fs \cup {p} |-> IF q = p THEN content ELSE fs[q]]
    /\ task' = Told(p)
    /\ UNCHANGED <<cache, visitedFiles, running>>

\* another program deletes p
Disk_Delete(p) ==
    /\ p \in DOMAIN fs
    /\ fs' = [q \in DOMAIN fs \ {p} |-> fs[q]]
    /\ task' = Told(p)
    /\ UNCHANGED <<cache, visitedFiles, running>>

\* the handler of onDidChangeTextDocument or of onDidDeleteFiles runs for p:
\* the entry of p, if there is one, is deleted
Notified(p) ==
    /\ running = NoTask
    /\ cache' = CacheDelete(cache, {p})
    /\ task' = [t \in Tasks |-> [task[t] EXCEPT !.unnotified = @ \ {p}]]
    /\ UNCHANGED <<fs, visitedFiles, running>>

\* the texts a.scss has on disk
DiskTexts == { << MixinLine(Go, 0) >>, << VarLine(Own, 0) >> }

InitCoherence ==
    /\ fs \in {[f \in {FileA} |-> content] : content \in DiskTexts}
    /\ cache = EmptyCache
    /\ visitedFiles = {}
    /\ running = NoTask
    /\ task = InitTasks

NextCoherence ==
    \/ \E t \in Tasks :
           \/ Read_Call(t, FileA)
           \/ Read_Fetched(t)
           \/ Read_Return(t)
           \/ Read_Thrown(t)
    \/ \E content \in DiskTexts : Disk_Write(FileA, content)
    \/ Disk_Delete(FileA)
    \/ Notified(FileA)

SpecCoherence == InitCoherence /\ [][NextCoherence]_vars

-----------------------------------------------------------------------------
(* C29 *)

\* C29: a readFile(p) that began when every change of p on disk had been
\* followed by a notification for p, p not changing on disk since, has
\* returned the text p has on disk, or has thrown if p is not on disk
C29_ReadsCurrent ==
    \A t \in Tasks :
        (Returned(t, "read") /\ task[t].settled) =>
            IF task[t].input.filePath \in DOMAIN fs
            THEN ~task[t].error /\ task[t].got = Text(fs[task[t].input.filePath])
            ELSE task[t].error

====
